---- MODULE Spec2Model ----
(***************************************************************************)
(* Quota and trial accounting of QuickBot_V3 (src/utils/quotas.py,         *)
(* src/models.py, src/db.py) and the feature handlers that call it         *)
(* (src/handlers/ai.py, image_edit.py, file_operations.py).                *)
(*                                                                         *)
(* Persistence is modelled as SQLAlchemy uses it in db.py: every handler   *)
(* works in its own Session (get_db), autoflush is off, a row is read into *)
(* the session's identity map on first access and is never refreshed, a    *)
(* new row is INSERTed by the explicit flush of get_or_create, and changed *)
(* columns are written back (UPDATE of the changed columns only) when the  *)
(* get_db block commits.  Row locks of the database engine only delay a    *)
(* writer and are not modelled.                                            *)
(*                                                                         *)
(* Time is an integer number of ticks; TicksPerDay ticks make one day.     *)
(* An optional value (a nullable column, a row that may be absent) is a    *)
(* sequence of length 0 or 1.                                              *)
(***************************************************************************)
EXTENDS Integers, Sequences, FiniteSets, TLC

\* ---- program constants (src/config.py) ---------------------------------
TRIAL_PERIOD_DAYS == 7
TRIAL_USES_PER_PERIOD == 3

\* ---- bounds of the model -----------------------------------------------
TicksPerDay == 2
\* last day the clock reaches; usage dates are 0..MaxDayTrial
MaxDayTrial == 8
\* consume_trial and increment_quota calls made within one get_db block
MaxWrites == 1
\* the daily counters of a user are not incremented beyond this total
MaxUsed == 3
\* messages the concurrent handlers handle in all
MaxRuns == 2

Handlers == {"h1", "h2"}
TrialKinds == {"image_gen", "image_edit", "pptx"}
QuotaKinds == {"quick_chat", "code_chat", "convert", "pptx"}
Dates == 0..MaxDayTrial

None == <<>>
Some(x) == <<x>>
Max(a, b) == IF a >= b THEN a ELSE b

\* ---- the record of the last call -----------------------------------------
\* raised: an exception reached the caller; val: the value returned otherwise
NoCall == [op |-> "none", h |-> "h1", f |-> "-", raised |-> FALSE, val |-> FALSE]
Call(op, h, f, raised, val) ==
    [op |-> op, h |-> h, f |-> f, raised |-> raised, val |-> val]

VARIABLES
    now,          \* datetime.utcnow(), in ticks
    user,         \* the users row (with its plan's limits)
    trial_usage,  \* committed trial_usage row of the user: None or Some(row)
    quota_usage,  \* committed quota_usage rows of the user, by usage_date
    sess,         \* per handler: its open Session (identity map, pending writes)
    last,         \* the last ledger call and what it returned
    run,          \* per handler: the message it is handling and how far it got
    delivered,    \* per trial feature: results sent to the user so far
    panel,        \* the admin panel: is_admin of each admin account in the
                  \* database; is_admin_verified and grant_prem_tg_id (set or
                  \* not) in each one's user_data
    tz,           \* offset of the host's local time from UTC, in ticks
    retry,        \* the call of a function wrapped by retry_on_network_error
    conv          \* the user's conversation: its state, the users row's lang,
                  \* user_data, and how far each image-edit handler got

\* what the feature handlers do not own: the deliveries, the admin panel, the host
dvars == <<delivered, panel, tz, retry, conv>>
\* what the feature handlers add to the state of the ledgers
hvars == <<run, delivered, panel, tz, retry, conv>>
vars == <<now, user, trial_usage, quota_usage, sess, last, run, delivered, panel, tz,
          retry, conv>>

\* ---- clock ---------------------------------------------------------------
timedelta_days(d) == d * TicksPerDay
\* date.today(): the calendar date of the instant t on a host whose local
\* time is offset ticks ahead of UTC
date_today(t, offset) == (t + offset) \div TicksPerDay
today == date_today(now, tz)

\* ---- models.py -----------------------------------------------------------
\* User.is_premium with the comparison reversed
is_premium_reversed(u) == u.premium_until # None /\ now > u.premium_until[1]

\* User.is_premium
is_premium(u) == u.premium_until # None /\ now < u.premium_until[1]

\* User.get_daily_limit that ignores the personal override
get_daily_limit_plan_only(u, quota_type) == u.plan[quota_type]

\* User.get_daily_limit
get_daily_limit(u, quota_type) ==
    IF u.daily[quota_type] # None
    THEN u.daily[quota_type][1]
    ELSE u.plan[quota_type]

\* TrialUsage(user_id=...) after flush: column defaults, server_default now()
NewTrialUsage(t) ==
    [last_reset_at |-> t, image_gen_used |-> 0, image_edit_used |-> 0, pptx_used |-> 0]

\* QuotaUsage(user_id=..., usage_date=...) after flush: column defaults
NewQuotaUsage ==
    [quick_chat |-> 0, code_chat |-> 0, convert |-> 0, pptx |-> 0]

\* f"{feature}_used"
TrialField(feature) ==
    CASE feature = "image_gen" -> "image_gen_used"
      [] feature = "image_edit" -> "image_edit_used"
      [] feature = "pptx" -> "pptx_used"

TrialCounters == {"image_gen_used", "image_edit_used", "pptx_used"}

\* ---- the Session of one get_db block (db.py) -----------------------------
NoRows == [d \in Dates |-> None]
NoCols == [d \in Dates |-> {}]

ClosedSession ==
    [open |-> FALSE,
     broken |-> FALSE,        \* a flush failed: every later statement raises
     swallowed |-> FALSE,     \* increment_quota has caught an exception of the store
     writes |-> 0,            \* consume_trial and increment_quota calls so far
     trial |-> None,          \* identity map: the trial_usage row
     trial_ins |-> FALSE,     \* INSERT of the trial row pending in this transaction
     trial_upd |-> {},        \* changed columns of the trial row
     quota |-> NoRows,        \* identity map: quota_usage rows by date
     quota_ins |-> {},        \* dates whose row this transaction INSERTed
     quota_upd |-> NoCols]    \* changed columns of each quota row

\* columns whose value differs between two versions of a row
Changed(old, new) == {c \in DOMAIN old : old[c] # new[c]}

\* another open session holds an uncommitted INSERT of the trial row
TrialInsertPending(h) ==
    \E g \in Handlers \ {h} : sess[g].open /\ ~sess[g].broken /\ sess[g].trial_ins

\* get_or_create_trial on a table without the unique constraint on user_id
get_or_create_trial_unchecked(h) ==
    LET s == sess[h] IN
    IF s.broken THEN s
    ELSE IF s.trial # None THEN s
    ELSE IF trial_usage # None THEN [s EXCEPT !.trial = trial_usage]
    ELSE [s EXCEPT !.trial = Some(NewTrialUsage(now)), !.trial_ins = TRUE]

\* quotas.get_or_create_trial: the session after the call; broken when it raised
get_or_create_trial(h) ==
    LET s == sess[h] IN
    IF s.broken THEN s
    ELSE IF s.trial # None THEN s
    ELSE IF trial_usage # None THEN [s EXCEPT !.trial = trial_usage]
    ELSE IF TrialInsertPending(h) THEN [s EXCEPT !.broken = TRUE]
    ELSE [s EXCEPT !.trial = Some(NewTrialUsage(now)), !.trial_ins = TRUE]

\* another open session holds an uncommitted INSERT of the quota row of date d
QuotaInsertPending(h, d) ==
    \E g \in Handlers \ {h} : sess[g].open /\ ~sess[g].broken /\ d \in sess[g].quota_ins

\* QuotaUsage.get_or_create on a table without the constraint uq_quota_user_day
get_or_create_unchecked(h, usage_date) ==
    LET s == sess[h] IN
    IF s.broken THEN s
    ELSE IF s.quota[usage_date] # None THEN s
    ELSE IF quota_usage[usage_date] # None
         THEN [s EXCEPT !.quota[usage_date] = quota_usage[usage_date]]
    ELSE [s EXCEPT !.quota[usage_date] = Some(NewQuotaUsage),
                   !.quota_ins = @ \cup {usage_date}]

\* QuotaUsage.get_or_create: the session after the call; broken when it raised
get_or_create(h, usage_date) ==
    LET s == sess[h] IN
    IF s.broken THEN s
    ELSE IF s.quota[usage_date] # None THEN s
    ELSE IF quota_usage[usage_date] # None
         THEN [s EXCEPT !.quota[usage_date] = quota_usage[usage_date]]
    ELSE IF QuotaInsertPending(h, usage_date) THEN [s EXCEPT !.broken = TRUE]
    ELSE [s EXCEPT !.quota[usage_date] = Some(NewQuotaUsage),
                   !.quota_ins = @ \cup {usage_date}]

\* setattr on the loaded quota row followed by db.add
PutQuota(s, usage_date, row) ==
    [s EXCEPT !.quota[usage_date] = Some(row),
              !.quota_upd[usage_date] = @ \cup Changed(s.quota[usage_date][1], row)]

\* setattr on the loaded trial row followed by db.add
PutTrial(s, row) ==
    [s EXCEPT !.trial = Some(row),
              !.trial_upd = @ \cup Changed(s.trial[1], row)]

\* no message is being handled
NoDeliveries == [f \in TrialKinds |-> 0]
\* the admin accounts; nobody is an admin and nobody has opened the panel
Admins == {"a1", "a2"}
NoPanel == [is_admin |-> [a \in Admins |-> FALSE],
            verified |-> [a \in Admins |-> FALSE],
            grant_prem_tg_id |-> [a \in Admins |-> FALSE],
            is_blocked |-> [a \in Admins |-> FALSE]]
\* a host whose local time is UTC
UTC == 0
Idle == [handler |-> "none", pc |-> "idle", calls |-> {}, acted |-> FALSE, runs |-> 0]
\* no wrapped function is being called
NoRetry ==
    [pc |-> "idle", caller |-> "-", max_retries |-> 0, attempt |-> 0,
     tried |-> <<>>,            \* how each invocation of func ended, in order
     slept |-> <<>>,            \* the asyncio.sleep calls, in order
     last_exception |-> None,
     wrapped |-> None,          \* how the wrapper ended: returned or raised what
     outcome |-> None]          \* what the caller of safe_* got
\* nobody has sent /start: no users row, empty user_data, no image stored
NoConv ==
    [state |-> "END", registered |-> FALSE, lang |-> None,
     user_data |-> [lang |-> None, regen_image_file_id |-> None],
     photos |-> 0,              \* images sent so far; the n-th has file id n
     edited |-> <<>>,           \* file ids of the edits started, in order
     flow |-> [h \in Handlers |-> "none"]]

\* ---- quotas.py: trial ledger, on the row held by the session -------------
\* maybe_reset_trial that zeroes only the image_gen counter
maybe_reset_trial_partial(trial, t) ==
    IF t - trial.last_reset_at >= timedelta_days(TRIAL_PERIOD_DAYS)
    THEN [ret |-> TRUE,
          trial |-> [trial EXCEPT !.last_reset_at = t, !.image_gen_used = 0]]
    ELSE [ret |-> FALSE, trial |-> trial]

\* maybe_reset_trial that clears the counters of an elapsed period without
\* moving last_reset_at and without reporting the reset
maybe_reset_trial_unreported(trial, t) ==
    IF t - trial.last_reset_at >= timedelta_days(TRIAL_PERIOD_DAYS)
    THEN [ret |-> FALSE,
          trial |-> [last_reset_at |-> trial.last_reset_at, image_gen_used |-> 0,
                     image_edit_used |-> 0, pptx_used |-> 0]]
    ELSE [ret |-> FALSE, trial |-> trial]

\* maybe_reset_trial, quotas.py:148-168
maybe_reset_trial(trial, t) ==
    IF t - trial.last_reset_at >= timedelta_days(TRIAL_PERIOD_DAYS)
    THEN [ret |-> TRUE,
          trial |-> [last_reset_at |-> t, image_gen_used |-> 0,
                     image_edit_used |-> 0, pptx_used |-> 0]]
    ELSE [ret |-> FALSE, trial |-> trial]

\* trial_remaining that counts the use being asked for
trial_remaining_less_one(trial, feature) ==
    Max(0, TRIAL_USES_PER_PERIOD - trial[TrialField(feature)] - 1)

\* trial_remaining, quotas.py:184-188
trial_remaining(trial, feature) ==
    Max(0, TRIAL_USES_PER_PERIOD - trial[TrialField(feature)])

\* consume_trial with the cap test off by one (used > cap instead of used >= cap)
consume_trial_offbyone(trial, feature) ==
    LET field == TrialField(feature)
        used == trial[field]
    IN IF used > TRIAL_USES_PER_PERIOD
       THEN [ret |-> FALSE, trial |-> trial]
       ELSE [ret |-> TRUE, trial |-> [trial EXCEPT ![field] = used + 1]]

\* consume_trial, quotas.py:194-212
consume_trial(trial, feature) ==
    LET field == TrialField(feature)
        used == trial[field]
    IN IF used >= TRIAL_USES_PER_PERIOD
       THEN [ret |-> FALSE, trial |-> trial]
       ELSE [ret |-> TRUE, trial |-> [trial EXCEPT ![field] = used + 1]]

\* timedelta.days: whole days, rounded towards minus infinity
DaysOf(ticks) == ticks \div TicksPerDay

\* get_trial_status, quotas.py:227-253
get_trial_status(trial, t) ==
    LET time_since_reset == t - trial.last_reset_at
        time_until_reset == timedelta_days(TRIAL_PERIOD_DAYS) - time_since_reset
    IN [image_gen |-> [used |-> trial.image_gen_used,
                       remaining |-> TRIAL_USES_PER_PERIOD - trial.image_gen_used,
                       total |-> TRIAL_USES_PER_PERIOD],
        image_edit |-> [used |-> trial.image_edit_used,
                        remaining |-> TRIAL_USES_PER_PERIOD - trial.image_edit_used,
                        total |-> TRIAL_USES_PER_PERIOD],
        pptx |-> [used |-> trial.pptx_used,
                  remaining |-> TRIAL_USES_PER_PERIOD - trial.pptx_used,
                  total |-> TRIAL_USES_PER_PERIOD],
        last_reset |-> trial.last_reset_at,
        days_until_reset |-> Max(0, DaysOf(time_until_reset)),
        reset_period_days |-> TRIAL_PERIOD_DAYS]

\* ---- quotas.py: daily quota ledger, on the row held by the session --------
\* has_quota that admits one use more (used <= limit)
has_quota_inclusive(quota, u, quota_type) ==
    LET used == quota[quota_type]
        limit == get_daily_limit(u, quota_type)
    IN used <= limit

\* has_quota that treats a limit of 0 or less as unlimited
has_quota_unlimited(quota, u, quota_type) ==
    LET used == quota[quota_type]
        limit == get_daily_limit(u, quota_type)
    IN limit <= 0 \/ used < limit

\* has_quota, quotas.py:42-52
has_quota(quota, u, quota_type) ==
    LET used == quota[quota_type]
        limit == get_daily_limit(u, quota_type)
    IN used < limit

\* increment_quota that refuses once the counter has reached the daily limit
increment_quota_capped(quota, quota_type, amount) ==
    IF quota[quota_type] >= get_daily_limit(user, quota_type) THEN quota
    ELSE [quota EXCEPT ![quota_type] = quota[quota_type] + amount]

\* increment_quota, quotas.py:77-78
increment_quota(quota, quota_type, amount) ==
    [quota EXCEPT ![quota_type] = quota[quota_type] + amount]

\* get_quota_status, quotas.py:102-107
get_quota_status(quota, u) ==
    [k \in QuotaKinds |-> <<quota[k], get_daily_limit(u, k)>>]

\* ---- actions: session life cycle (db.get_db) -----------------------------
\* SessionLocal() at the entry of a get_db block
Begin(h) ==
    /\ ~sess[h].open
    /\ sess' = [sess EXCEPT ![h] = [ClosedSession EXCEPT !.open = TRUE]]
    /\ last' = NoCall
    /\ UNCHANGED <<now, user, trial_usage, quota_usage>>

\* the trial row as the commit of session s stores it
CommittedTrial(s) ==
    IF s.trial_ins THEN s.trial
    ELSE IF s.trial_upd = {} THEN trial_usage
    ELSE Some([c \in DOMAIN trial_usage[1] |->
                 IF c \in s.trial_upd THEN s.trial[1][c] ELSE trial_usage[1][c]])

\* the quota rows as the commit of session s stores them
CommittedQuota(s) ==
    [d \in Dates |->
        IF d \in s.quota_ins THEN s.quota[d]
        ELSE IF s.quota_upd[d] = {} THEN quota_usage[d]
        ELSE Some([c \in QuotaKinds |->
                     IF c \in s.quota_upd[d] THEN s.quota[d][1][c] ELSE quota_usage[d][1][c]])]

\* db.commit() and db.close() at the normal exit of a get_db block;
\* a session whose flush failed raises at commit and is rolled back
Commit(h) ==
    /\ sess[h].open
    /\ IF sess[h].broken
       THEN UNCHANGED <<trial_usage, quota_usage>>
       ELSE /\ trial_usage' = CommittedTrial(sess[h])
            /\ quota_usage' = CommittedQuota(sess[h])
    /\ sess' = [sess EXCEPT ![h] = ClosedSession]
    /\ last' = IF sess[h].broken THEN Call("commit", h, "-", TRUE, FALSE) ELSE NoCall
    /\ UNCHANGED <<now, user>>

\* get_db that commits in its finally clause: what the block did before it
\* raised is stored
BlockRaises_committing(h) ==
    /\ sess[h].open
    /\ IF sess[h].broken
       THEN UNCHANGED <<trial_usage, quota_usage>>
       ELSE /\ trial_usage' = CommittedTrial(sess[h])
            /\ quota_usage' = CommittedQuota(sess[h])
    /\ sess' = [sess EXCEPT ![h] = ClosedSession]
    /\ last' = Call("get_db", h, "-", TRUE, sess[h].writes)
    /\ UNCHANGED <<now, user>>

\* the body of a get_db block raises (a reply cannot be sent, a statement
\* fails): db.rollback(), the exception is raised again, db.close();
\* last.val tells how many counter updates the block had made
BlockRaises(h) ==
    /\ sess[h].open
    /\ sess' = [sess EXCEPT ![h] = ClosedSession]
    /\ last' = Call("get_db", h, "-", TRUE, sess[h].writes)
    /\ UNCHANGED <<now, user, trial_usage, quota_usage>>

\* the store fails under the open transaction of h (the connection is lost,
\* the database stays locked, a statement is rejected): from here on every
\* statement of the session raises, and so does its commit
StoreFails(h) ==
    /\ sess[h].open
    /\ ~sess[h].broken
    /\ sess' = [sess EXCEPT ![h].broken = TRUE]
    /\ last' = NoCall
    /\ UNCHANGED <<now, user, trial_usage, quota_usage>>

\* the clock advances by one tick, up to the instant maxNow
Tick(maxNow) ==
    /\ now < maxNow
    /\ now' = now + 1
    /\ last' = NoCall
    /\ UNCHANGED <<user, trial_usage, quota_usage, sess>>

\* the session of h has made fewer than MaxWrites counter updates
CanWrite(h) == sess[h].writes < MaxWrites

\* ---- actions: trial ledger calls -----------------------------------------
MaybeResetTrial(h) ==
    /\ sess[h].open
    /\ LET s == get_or_create_trial(h) IN
       IF s.broken
       THEN /\ sess' = [sess EXCEPT ![h] = s]
            /\ last' = Call("maybe_reset_trial", h, "-", TRUE, FALSE)
       ELSE LET r == maybe_reset_trial(s.trial[1], now) IN
            /\ sess' = [sess EXCEPT ![h] = PutTrial(s, r.trial)]
            /\ last' = Call("maybe_reset_trial", h, "-", FALSE, r.ret)
    /\ UNCHANGED <<now, user, trial_usage, quota_usage>>

\* trial_remaining that runs the reset check before it reads the counter
TrialRemaining_resetting(h, feature) ==
    /\ sess[h].open
    /\ LET s == get_or_create_trial(h) IN
       IF s.broken
       THEN /\ sess' = [sess EXCEPT ![h] = s]
            /\ last' = Call("trial_remaining", h, feature, TRUE, 0)
       ELSE LET r == maybe_reset_trial(s.trial[1], now) IN
            /\ sess' = [sess EXCEPT ![h] = PutTrial(s, r.trial)]
            /\ last' = Call("trial_remaining", h, feature, FALSE,
                            trial_remaining(r.trial, feature))
    /\ UNCHANGED <<now, user, trial_usage, quota_usage>>

TrialRemaining(h, feature) ==
    /\ sess[h].open
    /\ LET s == get_or_create_trial(h) IN
       /\ sess' = [sess EXCEPT ![h] = s]
       /\ IF s.broken
          THEN last' = Call("trial_remaining", h, feature, TRUE, 0)
          ELSE last' = Call("trial_remaining", h, feature, FALSE,
                            trial_remaining(s.trial[1], feature))
    /\ UNCHANGED <<now, user, trial_usage, quota_usage>>

\* consume_trial as an atomic conditional increment: the use another open
\* session has taken and not yet committed counts against the cap
ConsumeTrial_atomic(h, feature) ==
    /\ sess[h].open
    /\ LET s == get_or_create_trial(h)
           field == TrialField(feature)
           taken == \E o \in Handlers \ {h} :
                      /\ sess[o].open /\ sess[o].trial # None
                      /\ field \in sess[o].trial_upd
                      /\ sess[o].trial[1][field] >= TRIAL_USES_PER_PERIOD
       IN
       IF s.broken
       THEN /\ sess' = [sess EXCEPT ![h] = s]
            /\ last' = Call("consume_trial", h, feature, TRUE, FALSE)
       ELSE LET r == IF taken THEN [ret |-> FALSE, trial |-> s.trial[1]]
                     ELSE consume_trial(s.trial[1], feature) IN
            /\ sess' = [sess EXCEPT ![h] = [PutTrial(s, r.trial) EXCEPT !.writes = @ + 1]]
            /\ last' = Call("consume_trial", h, feature, FALSE, r.ret)
    /\ UNCHANGED <<now, user, trial_usage, quota_usage>>

ConsumeTrial(h, feature) ==
    /\ sess[h].open
    /\ LET s == get_or_create_trial(h) IN
       IF s.broken
       THEN /\ sess' = [sess EXCEPT ![h] = s]
            /\ last' = Call("consume_trial", h, feature, TRUE, FALSE)
       ELSE LET r == consume_trial(s.trial[1], feature) IN
            /\ sess' = [sess EXCEPT ![h] = [PutTrial(s, r.trial) EXCEPT !.writes = @ + 1]]
            /\ last' = Call("consume_trial", h, feature, FALSE, r.ret)
    /\ UNCHANGED <<now, user, trial_usage, quota_usage>>

GetTrialStatus(h) ==
    /\ sess[h].open
    /\ LET s == get_or_create_trial(h) IN
       /\ sess' = [sess EXCEPT ![h] = s]
       /\ IF s.broken
          THEN last' = Call("get_trial_status", h, "-", TRUE, FALSE)
          ELSE last' = Call("get_trial_status", h, "-", FALSE,
                            get_trial_status(s.trial[1], now))
    /\ UNCHANGED <<now, user, trial_usage, quota_usage>>

\* ---- actions: daily quota ledger calls ------------------------------------
\* every daily counter the session of h would store, summed over all dates
RowTotal(row) == row["quick_chat"] + row["code_chat"] + row["convert"] + row["pptx"]
RECURSIVE SumUsed(_, _)
SumUsed(h, d) ==
    LET row == IF sess[h].quota[d] # None THEN sess[h].quota[d]
               ELSE quota_usage[d]
        here == IF row = None THEN 0 ELSE RowTotal(row[1])
    IN IF d = 0 THEN here ELSE here + SumUsed(h, d - 1)

\* the daily counters stay within MaxUsed in all after amount more is recorded
UsedBelow(h, amount) == SumUsed(h, MaxDayTrial) + amount <= MaxUsed

\* has_quota that records the use it admits
HasQuota_counting(h, quota_type) ==
    /\ sess[h].open
    /\ IF is_premium(user) \/ user.is_admin
       THEN /\ last' = Call("has_quota", h, quota_type, FALSE, TRUE)
            /\ UNCHANGED sess
       ELSE LET s == get_or_create(h, today) IN
            IF s.broken
            THEN /\ sess' = [sess EXCEPT ![h] = s]
                 /\ last' = Call("has_quota", h, quota_type, FALSE, TRUE)
            ELSE LET ok == has_quota(s.quota[today][1], user, quota_type) IN
                 /\ sess' = [sess EXCEPT ![h] =
                       IF ok THEN PutQuota(s, today,
                                    increment_quota(s.quota[today][1], quota_type, 1))
                       ELSE s]
                 /\ last' = Call("has_quota", h, quota_type, FALSE, ok)
    /\ UNCHANGED <<now, user, trial_usage, quota_usage>>

\* has_quota that also counts the requests of the other handlers that passed
\* their check for the same kind and have not stored their increment yet
HasQuota_inflight(h, quota_type) ==
    /\ sess[h].open
    /\ IF is_premium(user) \/ user.is_admin
       THEN /\ last' = Call("has_quota", h, quota_type, FALSE, TRUE)
            /\ UNCHANGED sess
       ELSE LET s == get_or_create(h, today)
                inflight == {o \in Handlers \ {h} :
                               run[o].pc \in {"act", "count"} /\ run[o].handler = quota_type}
            IN
            /\ sess' = [sess EXCEPT ![h] = s]
            /\ IF s.broken
               THEN last' = Call("has_quota", h, quota_type, FALSE, TRUE)
               ELSE last' = Call("has_quota", h, quota_type, FALSE,
                                 has_quota(increment_quota(s.quota[today][1], quota_type,
                                                           Cardinality(inflight)),
                                           user, quota_type))
    /\ UNCHANGED <<now, user, trial_usage, quota_usage>>

\* has_quota that fetches today's row before it looks at the user's rank
HasQuota_row_first(h, quota_type) ==
    /\ sess[h].open
    /\ LET s == get_or_create(h, today) IN
       /\ sess' = [sess EXCEPT ![h] = s]
       /\ IF s.broken \/ is_premium(user) \/ user.is_admin
          THEN last' = Call("has_quota", h, quota_type, FALSE, TRUE)
          ELSE last' = Call("has_quota", h, quota_type, FALSE,
                            has_quota(s.quota[today][1], user, quota_type))
    /\ UNCHANGED <<now, user, trial_usage, quota_usage>>

HasQuota(h, quota_type) ==
    /\ sess[h].open
    /\ IF is_premium(user) \/ user.is_admin
       THEN /\ last' = Call("has_quota", h, quota_type, FALSE, TRUE)
            /\ UNCHANGED sess
       ELSE LET s == get_or_create(h, today) IN
            /\ sess' = [sess EXCEPT ![h] = s]
            /\ IF s.broken
               THEN last' = Call("has_quota", h, quota_type, FALSE, TRUE)
               ELSE last' = Call("has_quota", h, quota_type, FALSE,
                                 has_quota(s.quota[today][1], user, quota_type))
    /\ UNCHANGED <<now, user, trial_usage, quota_usage>>

\* increment_quota that records the use on the date of the row the session
\* loaded first (the date of the check) instead of the date of the call
IncrementQuota_check_date(h, quota_type, amount) ==
    /\ sess[h].open
    /\ LET loaded == {d \in Dates : sess[h].quota[d] # None}
           day == IF loaded = {} THEN today
                  ELSE CHOOSE d \in loaded : \A e \in loaded : d <= e
           s == get_or_create(h, day)
       IN
       /\ IF s.broken
          THEN sess' = [sess EXCEPT ![h] = [s EXCEPT !.swallowed = TRUE]]
          ELSE sess' = [sess EXCEPT ![h] =
                          [PutQuota(s, day,
                                    increment_quota(s.quota[day][1], quota_type, amount))
                             EXCEPT !.writes = @ + 1]]
       /\ last' = Call("increment_quota", h, quota_type, FALSE, amount)
    /\ UNCHANGED <<now, user, trial_usage, quota_usage>>

IncrementQuota(h, quota_type, amount) ==
    /\ sess[h].open
    /\ LET s == get_or_create(h, today) IN
       /\ IF s.broken
          THEN sess' = [sess EXCEPT ![h] = [s EXCEPT !.swallowed = TRUE]]
          ELSE sess' = [sess EXCEPT ![h] =
                          [PutQuota(s, today,
                                    increment_quota(s.quota[today][1], quota_type, amount))
                             EXCEPT !.writes = @ + 1]]
       /\ last' = Call("increment_quota", h, quota_type, FALSE, amount)
    /\ UNCHANGED <<now, user, trial_usage, quota_usage>>

\* get_quota_status that records the status view as a quick_chat use
GetQuotaStatus_counting(h) ==
    /\ sess[h].open
    /\ LET s == get_or_create(h, today) IN
       IF s.broken
       THEN /\ sess' = [sess EXCEPT ![h] = s]
            /\ last' = Call("get_quota_status", h, "-", TRUE, FALSE)
       ELSE /\ sess' = [sess EXCEPT ![h] =
                          PutQuota(s, today, increment_quota(s.quota[today][1], "quick_chat", 1))]
            /\ last' = Call("get_quota_status", h, "-", FALSE,
                            get_quota_status(s.quota[today][1], user))
    /\ UNCHANGED <<now, user, trial_usage, quota_usage>>

GetQuotaStatus(h) ==
    /\ sess[h].open
    /\ LET s == get_or_create(h, today) IN
       /\ sess' = [sess EXCEPT ![h] = s]
       /\ IF s.broken
          THEN last' = Call("get_quota_status", h, "-", TRUE, FALSE)
          ELSE last' = Call("get_quota_status", h, "-", FALSE,
                            get_quota_status(s.quota[today][1], user))
    /\ UNCHANGED <<now, user, trial_usage, quota_usage>>

\* can_use_feature, quotas.py:267-286
CanUseFeature(h, feature, is_premium_feature) ==
    /\ sess[h].open
    /\ IF user.is_admin
       THEN /\ last' = Call("can_use_feature", h, <<feature, is_premium_feature>>, FALSE, <<TRUE, "">>)
            /\ UNCHANGED sess
       ELSE IF is_premium(user)
       THEN /\ last' = Call("can_use_feature", h, <<feature, is_premium_feature>>, FALSE, <<TRUE, "">>)
            /\ UNCHANGED sess
       ELSE IF is_premium_feature
       THEN LET s == get_or_create_trial(h) IN
            /\ sess' = [sess EXCEPT ![h] = s]
            /\ IF s.broken
               THEN last' = Call("can_use_feature", h, <<feature, is_premium_feature>>, TRUE, <<FALSE, "">>)
               ELSE IF trial_remaining(s.trial[1], feature) <= 0
               THEN last' = Call("can_use_feature", h, <<feature, is_premium_feature>>, FALSE,
                                 <<FALSE, "trial_exhausted">>)
               ELSE last' = Call("can_use_feature", h, <<feature, is_premium_feature>>, FALSE, <<TRUE, "trial">>)
       ELSE LET s == get_or_create(h, today) IN
            /\ sess' = [sess EXCEPT ![h] = s]
            /\ IF s.broken \/ has_quota(s.quota[today][1], user, feature)
               THEN last' = Call("can_use_feature", h, <<feature, is_premium_feature>>, FALSE, <<TRUE, "quota">>)
               ELSE last' = Call("can_use_feature", h, <<feature, is_premium_feature>>, FALSE,
                                 <<FALSE, "quota_exhausted">>)
    /\ UNCHANGED <<now, user, trial_usage, quota_usage>>

\* ---- feature handlers (handlers/ai.py, image_edit.py, file_operations.py) --
\* What each handler does around its gated action:
\*   resets            maybe_reset_trial is called first
\*   trial             the trial feature whose trial_remaining is checked
\*   check             the daily kind whose has_quota is checked
\*   consumes          consume_trial is called after the action
\*   count             the daily kind increment_quota is called for
\*   count_on_failure  increment_quota is reached also when the action failed
\*   archives          a storage_logger helper runs on the handler's session
\*                     after the action (save_and_log_image is never entered:
\*                     its call reads FileCategory.image_gen, which does not
\*                     exist, and the handler logs the AttributeError)
handle_image_generation ==
    [resets |-> TRUE, trial |-> Some("image_gen"), check |-> Some("convert"),
     consumes |-> TRUE, count |-> Some("convert"), count_on_failure |-> FALSE,
     archives |-> FALSE]

handle_pptx_creation ==
    [resets |-> TRUE, trial |-> Some("pptx"), check |-> None,
     consumes |-> FALSE, count |-> Some("pptx"), count_on_failure |-> FALSE,
     archives |-> TRUE]

\* _handle_normal_chat, text only mode; quota_type is quick_chat or code_chat
handle_normal_chat(quota_type) ==
    [resets |-> FALSE, trial |-> None, check |-> Some(quota_type),
     consumes |-> FALSE, count |-> Some(quota_type), count_on_failure |-> TRUE,
     archives |-> FALSE]

\* _handle_normal_chat, image analysis mode
handle_normal_chat_image ==
    [resets |-> FALSE, trial |-> None, check |-> None,
     consumes |-> FALSE, count |-> None, count_on_failure |-> FALSE,
     archives |-> FALSE]

image_edit_handler ==
    [resets |-> TRUE, trial |-> Some("image_edit"), check |-> Some("convert"),
     consumes |-> TRUE, count |-> Some("convert"), count_on_failure |-> FALSE,
     archives |-> TRUE]

handle_ocr ==
    [resets |-> FALSE, trial |-> None, check |-> None,
     consumes |-> FALSE, count |-> Some("convert"), count_on_failure |-> FALSE,
     archives |-> FALSE]

HandlerKinds ==
    {"image_generation", "pptx_creation", "quick_chat", "code_chat",
     "image_analysis", "image_edit", "ocr"}

HandlerOf(name) ==
    CASE name = "image_generation" -> handle_image_generation
      [] name = "pptx_creation" -> handle_pptx_creation
      [] name = "quick_chat" -> handle_normal_chat("quick_chat")
      [] name = "code_chat" -> handle_normal_chat("code_chat")
      [] name = "image_analysis" -> handle_normal_chat_image
      [] name = "image_edit" -> image_edit_handler
      [] name = "ocr" -> handle_ocr

Steps == <<"reset", "trial", "quota", "act", "archive", "consume", "count", "return">>

\* the handler hd runs the step; the trial steps are skipped for premium and admin
Applies(hd, step) ==
    CASE step = "reset" -> hd.resets
      [] step = "trial" -> hd.trial # None /\ ~(is_premium(user) \/ user.is_admin)
      [] step = "quota" -> hd.check # None
      [] step = "act" -> TRUE
      [] step = "archive" -> hd.archives
      [] step = "consume" -> hd.consumes /\ ~(is_premium(user) \/ user.is_admin)
      [] step = "count" -> hd.count # None
      [] step = "return" -> TRUE

StepIndex(pc) == CHOOSE i \in 1..Len(Steps) : Steps[i] = pc

\* the step the handler runs after step number i
After(hd, i) ==
    Steps[CHOOSE j \in (i + 1)..Len(Steps) :
            /\ Applies(hd, Steps[j])
            /\ \A k \in (i + 1)..(j - 1) : ~Applies(hd, Steps[k])]

Goto(h, pc, called) ==
    run' = [run EXCEPT ![h].pc = pc, ![h].calls = @ \cup called]

\* the get_db block of chat_handler, image_edit_handler or
\* file_operations_handler is entered and the message is routed
Dispatch(h, name) ==
    /\ run[h].pc = "idle"
    /\ Begin(h)
    /\ run' = [run EXCEPT ![h] = [handler |-> name, pc |-> After(HandlerOf(name), 0),
                                  calls |-> {}, acted |-> FALSE, runs |-> 0]]

\* if maybe_reset_trial(db, user): the renewal notice (trial_renewed) is sent
StepReset(h) ==
    /\ run[h].pc = "reset"
    /\ MaybeResetTrial(h)
    /\ Goto(h, IF last'.raised THEN "return" ELSE After(HandlerOf(run[h].handler), 1),
            IF ~last'.raised /\ last'.val = TRUE
            THEN {"maybe_reset_trial", "trial_renewed"} ELSE {"maybe_reset_trial"})

\* remaining = trial_remaining(db, user, f); if remaining <= 0: return
StepTrial(h) ==
    /\ run[h].pc = "trial"
    /\ TrialRemaining(h, HandlerOf(run[h].handler).trial[1])
    /\ Goto(h, IF last'.raised \/ last'.val <= 0 THEN "return"
               ELSE After(HandlerOf(run[h].handler), 2),
            {"trial_remaining"})

\* if not has_quota(db, user, kind): return
StepQuota(h) ==
    /\ run[h].pc = "quota"
    /\ HasQuota(h, HandlerOf(run[h].handler).check[1])
    /\ Goto(h, IF last'.val THEN After(HandlerOf(run[h].handler), 3) ELSE "return",
            {"has_quota"})

\* the gated action: the call of the AI provider answers (ok) or fails
StepAct(h, ok) ==
    /\ run[h].pc = "act"
    /\ run' = [run EXCEPT ![h].acted = ok,
                          ![h].pc = IF ok THEN After(HandlerOf(run[h].handler), 4)
                                    ELSE IF HandlerOf(run[h].handler).count_on_failure
                                    THEN "count" ELSE "return"]
    /\ UNCHANGED <<now, user, trial_usage, quota_usage, sess, last>>

\* db.rollback() of a storage_logger helper: what the session had pending is
\* dropped and its objects are expired; the handler goes on with the session
Rollback(s) == [ClosedSession EXCEPT !.open = TRUE, !.writes = s.writes]

\* save_both_images, save_and_log_file: the helper never reaches its commit.
\* Either it returns early (Telegram gave no file id) and leaves the session
\* alone, or it raises inside (the upload fails, or it reads
\* FileCategory.image_edit, UserAction.image_edit or UserAction.file_upload,
\* none of which exists), catches the exception and rolls the handler's
\* session back
StepArchive(h, rolled_back) ==
    /\ run[h].pc = "archive"
    /\ sess' = [sess EXCEPT ![h] = IF rolled_back THEN Rollback(sess[h]) ELSE sess[h]]
    /\ last' = Call("storage_logger", h, "-", FALSE, rolled_back)
    /\ Goto(h, After(HandlerOf(run[h].handler), 5), {"storage_logger"})
    /\ UNCHANGED <<now, user, trial_usage, quota_usage>>

\* if consume_trial(db, user, f): the remaining uses are shown
StepConsume(h) ==
    /\ run[h].pc = "consume"
    /\ ConsumeTrial(h, HandlerOf(run[h].handler).trial[1])
    /\ Goto(h, After(HandlerOf(run[h].handler), 6), {"consume_trial"})

\* increment_quota(db, user, kind, amount=1)
StepCount(h) ==
    /\ run[h].pc = "count"
    /\ IncrementQuota(h, HandlerOf(run[h].handler).count[1], 1)
    /\ Goto(h, "return", {"increment_quota"})

\* the handler returns and the get_db block commits
Return(h) ==
    /\ run[h].pc = "return"
    /\ Commit(h)
    /\ run' = [run EXCEPT ![h] = Idle]

\* ---- users ---------------------------------------------------------------
\* limits of the plan row (scaled down from db.init_db)
PlanLimits == {0, 2}
\* values of a personal override
OverrideLimits == {-1, 1}
\* an instant in the middle of the clock's range: premium is active before it
PremiumEnd == TicksPerDay

NoOverride == [k \in QuotaKinds |-> None]

Users ==
    { [is_admin |-> a, premium_until |-> p,
       daily |-> [NoOverride EXCEPT !["convert"] = o],
       plan |-> [k \in QuotaKinds |-> l]] :
        a \in BOOLEAN, p \in {None, Some(PremiumEnd)},
        o \in {None} \cup {Some(v) : v \in OverrideLimits},
        l \in PlanLimits }

FreeUsers == {u \in Users : u.daily = NoOverride /\ u.plan["convert"] = 2}

NonPremium == ~user.is_admin /\ ~is_premium(user)

\* ---- admin.py: the admin panel ---------------------------------------------
\* the plan rows created by db.init_db, scaled down
free_plan == [k \in QuotaKinds |-> 2]
premium_plan == [k \in QuotaKinds |-> 3]

\* _require_admin: the handler runs when is_admin_verified is in the sender's
\* user_data, and otherwise when the database says the sender is an admin
require_admin(a) == panel.verified[a] \/ panel.is_admin[a]

\* the wrapper has let the handler run: is_admin_verified is set
Admitted(a) == [panel EXCEPT !.verified[a] = TRUE]

\* context.user_data.clear()
Cleared(p, a) == [p EXCEPT !.verified[a] = FALSE, !.grant_prem_tg_id[a] = FALSE]

\* the reply of an admin handler: f is "refused" when the wrapper turned the
\* sender away, "noop" when the handler returned early, "done" otherwise
Reply(op, a, f, val) == Call(op, a, f, FALSE, val)

\* /admin
admin_entry(a) ==
    /\ IF require_admin(a)
       THEN panel' = Admitted(a) /\ last' = Reply("admin_entry", a, "done", FALSE)
       ELSE UNCHANGED panel /\ last' = Reply("admin_entry", a, "refused", FALSE)
    /\ UNCHANGED <<now, user, trial_usage, quota_usage, sess, run, delivered, tz, retry, conv>>

\* admin_main_router on "Exit Admin", and admin_cancel
admin_exit(a) ==
    /\ IF require_admin(a)
       THEN panel' = Cleared(Admitted(a), a) /\ last' = Reply("admin_exit", a, "done", FALSE)
       ELSE UNCHANGED panel /\ last' = Reply("admin_exit", a, "refused", FALSE)
    /\ UNCHANGED <<now, user, trial_usage, quota_usage, sess, run, delivered, tz, retry, conv>>

\* bot.cancel_command: /cancel in the user conversation
cancel_command(a) ==
    /\ panel' = Cleared(panel, a)
    /\ last' = Reply("cancel_command", a, "done", FALSE)
    /\ UNCHANGED <<now, user, trial_usage, quota_usage, sess, run, delivered, tz, retry, conv>>

handle_make_admin(a, b) ==
    /\ IF ~require_admin(a)
       THEN UNCHANGED panel /\ last' = Reply("handle_make_admin", a, "refused", FALSE)
       ELSE IF panel.is_admin[b]
       THEN panel' = Admitted(a) /\ last' = Reply("handle_make_admin", a, "noop", FALSE)
       ELSE /\ panel' = [Admitted(a) EXCEPT !.is_admin[b] = TRUE]
            /\ last' = Reply("handle_make_admin", a, "done", FALSE)
    /\ UNCHANGED <<now, user, trial_usage, quota_usage, sess, run, delivered, tz, retry, conv>>

handle_remove_admin(a, b) ==
    /\ IF ~require_admin(a)
       THEN UNCHANGED panel /\ last' = Reply("handle_remove_admin", a, "refused", FALSE)
       ELSE IF ~panel.is_admin[b] \/ b = a
       THEN panel' = Admitted(a) /\ last' = Reply("handle_remove_admin", a, "noop", FALSE)
       ELSE /\ panel' = [Admitted(a) EXCEPT !.is_admin[b] = FALSE]
            /\ last' = Reply("handle_remove_admin", a, "done", FALSE)
    /\ UNCHANGED <<now, user, trial_usage, quota_usage, sess, run, delivered, tz, retry, conv>>

\* the admin a blocks the user b: refused for an admin, nothing to do for a
\* user who is blocked already
handle_block_user(a, b) ==
    /\ IF ~require_admin(a)
       THEN UNCHANGED panel /\ last' = Reply("handle_block_user", a, "refused", FALSE)
       ELSE IF panel.is_blocked[b] \/ panel.is_admin[b]
       THEN panel' = Admitted(a) /\ last' = Reply("handle_block_user", a, "noop", FALSE)
       ELSE /\ panel' = [Admitted(a) EXCEPT !.is_blocked[b] = TRUE]
            /\ last' = Reply("handle_block_user", a, "done", FALSE)
    /\ UNCHANGED <<now, user, trial_usage, quota_usage, sess, run, delivered, tz, retry, conv>>

handle_unblock_user(a, b) ==
    /\ IF ~require_admin(a)
       THEN UNCHANGED panel /\ last' = Reply("handle_unblock_user", a, "refused", FALSE)
       ELSE IF ~panel.is_blocked[b]
       THEN panel' = Admitted(a) /\ last' = Reply("handle_unblock_user", a, "noop", FALSE)
       ELSE /\ panel' = [Admitted(a) EXCEPT !.is_blocked[b] = FALSE]
            /\ last' = Reply("handle_unblock_user", a, "done", FALSE)
    /\ UNCHANGED <<now, user, trial_usage, quota_usage, sess, run, delivered, tz, retry, conv>>

\* the admin names the user who is to get premium
handle_grant_premium_user(a) ==
    /\ IF ~require_admin(a)
       THEN UNCHANGED panel /\ last' = Reply("handle_grant_premium_user", a, "refused", FALSE)
       ELSE /\ panel' = [Admitted(a) EXCEPT !.grant_prem_tg_id[a] = TRUE]
            /\ last' = Reply("handle_grant_premium_user", a, "done", FALSE)
    /\ UNCHANGED <<now, user, trial_usage, quota_usage, sess, run, delivered, tz, retry, conv>>

\* expires that always counts from the instant of the grant
grant_expires_from_now(u, t, days) == t + timedelta_days(days)

\* handle_grant_premium_days, admin.py:592-594
grant_expires(u, t, days) ==
    LET base == IF u.premium_until # None /\ u.premium_until[1] > t
                THEN u.premium_until[1] ELSE t
    IN base + timedelta_days(days)

handle_grant_premium_days(a, days) ==
    /\ IF ~require_admin(a)
       THEN /\ UNCHANGED <<panel, user>>
            /\ last' = Reply("handle_grant_premium_days", a, "refused", days)
       ELSE IF days <= 0 \/ ~panel.grant_prem_tg_id[a]
       THEN /\ panel' = Admitted(a)
            /\ UNCHANGED user
            /\ last' = Reply("handle_grant_premium_days", a, "noop", days)
       ELSE /\ user' = [user EXCEPT !.plan = premium_plan,
                                    !.premium_until = Some(grant_expires(user, now, days))]
            /\ panel' = [Admitted(a) EXCEPT !.grant_prem_tg_id[a] = FALSE]
            /\ last' = Reply("handle_grant_premium_days", a, "done", days)
    /\ UNCHANGED <<now, trial_usage, quota_usage, sess, run, delivered, tz, retry, conv>>

handle_revoke_premium(a) ==
    /\ IF ~require_admin(a)
       THEN /\ UNCHANGED <<panel, user>>
            /\ last' = Reply("handle_revoke_premium", a, "refused", FALSE)
       ELSE IF ~is_premium(user)
       THEN /\ panel' = Admitted(a)
            /\ UNCHANGED user
            /\ last' = Reply("handle_revoke_premium", a, "noop", FALSE)
       ELSE /\ user' = [user EXCEPT !.plan = free_plan, !.premium_until = None]
            /\ panel' = Admitted(a)
            /\ last' = Reply("handle_revoke_premium", a, "done", FALSE)
    /\ UNCHANGED <<now, trial_usage, quota_usage, sess, run, delivered, tz, retry, conv>>

\* ---- specification: the trial ledger, one handler at a time --------------
InitDb ==
    /\ now = 0
    /\ trial_usage = None
    /\ quota_usage = NoRows
    /\ sess = [h \in Handlers |-> ClosedSession]
    /\ last = NoCall
    /\ run = [h \in Handlers |-> Idle]
    /\ delivered = NoDeliveries
    /\ panel = NoPanel
    /\ tz = UTC
    /\ retry = NoRetry
    /\ conv = NoConv

PlainUser == CHOOSE u \in FreeUsers : ~u.is_admin /\ u.premium_until = None

InitTrial == InitDb /\ user = PlainUser

\* messages handled one at a time: a single handler is ever active
SeqHandlers == {"h1"}

NextTrialSeq ==
    \/ \E h \in SeqHandlers : Begin(h) /\ UNCHANGED hvars
    \/ \E h \in SeqHandlers : Commit(h) /\ UNCHANGED hvars
    \/ \E h \in SeqHandlers : MaybeResetTrial(h) /\ UNCHANGED hvars
    \/ \E h \in SeqHandlers, f \in TrialKinds : TrialRemaining(h, f) /\ UNCHANGED hvars
    \/ \E h \in SeqHandlers, f \in TrialKinds : CanWrite(h) /\ ConsumeTrial(h, f) /\ UNCHANGED hvars
    \/ \E h \in SeqHandlers : GetTrialStatus(h) /\ UNCHANGED hvars

SpecTrialSeq == InitTrial /\ [][NextTrialSeq]_vars

\* ---- specification: the rolling reset of the trial ledger ------------------
\* trial rows created at instant 0 with each counter unused or exhausted
ResetTrialRows ==
    { [last_reset_at |-> 0, image_gen_used |-> a, image_edit_used |-> b, pptx_used |-> c] :
        a \in {0, TRIAL_USES_PER_PERIOD}, b \in {0, TRIAL_USES_PER_PERIOD},
        c \in {0, TRIAL_USES_PER_PERIOD} }

InitTrialReset ==
    /\ now = 0
    /\ user = PlainUser
    /\ trial_usage \in {Some(r) : r \in ResetTrialRows}
    /\ quota_usage = NoRows
    /\ sess = [h \in Handlers |-> ClosedSession]
    /\ last = NoCall
    /\ run = [h \in Handlers |-> Idle]
    /\ delivered = NoDeliveries
    /\ panel = NoPanel
    /\ tz = UTC
    /\ retry = NoRetry
    /\ conv = NoConv

NextTrialReset ==
    \/ \E h \in SeqHandlers : Begin(h) /\ UNCHANGED hvars
    \/ \E h \in SeqHandlers : Commit(h) /\ UNCHANGED hvars
    \/ Tick(timedelta_days(MaxDayTrial + 1) - 1) /\ UNCHANGED hvars
    \/ \E h \in SeqHandlers : MaybeResetTrial(h) /\ UNCHANGED hvars
    \/ \E h \in SeqHandlers, f \in TrialKinds : TrialRemaining(h, f) /\ UNCHANGED hvars
    \/ \E h \in SeqHandlers : GetTrialStatus(h) /\ UNCHANGED hvars

SpecTrialReset == InitTrialReset /\ [][NextTrialReset]_vars

\* ---- specification: the daily quota ledger, one handler at a time ---------
QuotaUsers == {u \in Users : ~u.is_admin /\ u.premium_until = None}
Amounts == {1, 2}

\* the last instant of day 0, nothing used yet
InitQuota ==
    /\ now = timedelta_days(1) - 1
    /\ user \in QuotaUsers
    /\ trial_usage = None
    /\ quota_usage = NoRows
    /\ sess = [h \in Handlers |-> ClosedSession]
    /\ last = NoCall
    /\ run = [h \in Handlers |-> Idle]
    /\ delivered = NoDeliveries
    /\ panel = NoPanel
    /\ tz = UTC
    /\ retry = NoRetry
    /\ conv = NoConv

NextQuotaSeq ==
    \/ \E h \in SeqHandlers : Begin(h) /\ UNCHANGED hvars
    \/ \E h \in SeqHandlers : Commit(h) /\ UNCHANGED hvars
    \/ Tick(timedelta_days(1)) /\ UNCHANGED hvars
    \/ \E h \in SeqHandlers, f \in QuotaKinds : HasQuota(h, f) /\ UNCHANGED hvars
    \/ \E h \in SeqHandlers, f \in QuotaKinds, a \in Amounts :
         CanWrite(h) /\ UsedBelow(h, a) /\ IncrementQuota(h, f, a) /\ UNCHANGED hvars
    \/ \E h \in SeqHandlers : GetQuotaStatus(h) /\ UNCHANGED hvars

SpecQuotaSeq == InitQuota /\ [][NextQuotaSeq]_vars

\* ---- specification: the read side of both ledgers, from any stored state --
\* trial rows with each counter one below the cap or at it (no row: all 0)
AccessTrialRows ==
    { [last_reset_at |-> 0, image_gen_used |-> a, image_edit_used |-> b, pptx_used |-> c] :
        a \in {TRIAL_USES_PER_PERIOD - 1, TRIAL_USES_PER_PERIOD},
        b \in {TRIAL_USES_PER_PERIOD - 1, TRIAL_USES_PER_PERIOD},
        c \in {TRIAL_USES_PER_PERIOD - 1, TRIAL_USES_PER_PERIOD} }
AccessQuotaRows == { [k \in QuotaKinds |-> c] : c \in 0..MaxUsed }

InitAccess ==
    /\ now \in 0..PremiumEnd
    /\ tz = UTC
    /\ retry = NoRetry
    /\ conv = NoConv
    /\ user \in Users
    /\ trial_usage \in {None} \cup {Some(r) : r \in AccessTrialRows}
    /\ \E q \in {None} \cup {Some(r) : r \in AccessQuotaRows} :
         quota_usage = [d \in Dates |-> IF d = today THEN q ELSE None]
    /\ sess = [h \in Handlers |-> ClosedSession]
    /\ last = NoCall
    /\ run = [h \in Handlers |-> Idle]
    /\ delivered = NoDeliveries
    /\ panel = NoPanel

NextAccess ==
    \/ \E h \in SeqHandlers : Begin(h) /\ UNCHANGED hvars
    \/ \E h \in SeqHandlers : Commit(h) /\ UNCHANGED hvars
    \/ \E h \in SeqHandlers, f \in TrialKinds : CanUseFeature(h, f, TRUE) /\ UNCHANGED hvars
    \/ \E h \in SeqHandlers, f \in QuotaKinds : CanUseFeature(h, f, FALSE) /\ UNCHANGED hvars
    \/ \E h \in SeqHandlers, f \in QuotaKinds : HasQuota(h, f) /\ UNCHANGED hvars
    \/ \E h \in SeqHandlers, f \in TrialKinds : TrialRemaining(h, f) /\ UNCHANGED hvars
    \/ \E h \in SeqHandlers : GetQuotaStatus(h) /\ UNCHANGED hvars
    \/ \E h \in SeqHandlers : GetTrialStatus(h) /\ UNCHANGED hvars

SpecAccess == InitAccess /\ [][NextAccess]_vars

\* ---- specification: the feature handlers, one message at a time ----------
HandlerQuotaRows ==
    { [NewQuotaUsage EXCEPT !["convert"] = c] : c \in 0..(MaxUsed - 1) }

InitHandlers ==
    /\ now = 0
    /\ user \in Users
    /\ trial_usage \in {None} \cup {Some(r) : r \in AccessTrialRows}
    /\ \E q \in {None} \cup {Some(r) : r \in HandlerQuotaRows} :
         quota_usage = [d \in Dates |-> IF d = 0 THEN q ELSE None]
    /\ sess = [h \in Handlers |-> ClosedSession]
    /\ last = NoCall
    /\ run = [h \in Handlers |-> Idle]
    /\ delivered = NoDeliveries
    /\ panel = NoPanel
    /\ tz = UTC
    /\ retry = NoRetry
    /\ conv = NoConv

NextHandlers ==
    \/ \E h \in SeqHandlers, name \in HandlerKinds : UsedBelow(h, 1) /\ Dispatch(h, name) /\ UNCHANGED dvars
    \/ \E h \in SeqHandlers : StepReset(h) /\ UNCHANGED dvars
    \/ \E h \in SeqHandlers : StepTrial(h) /\ UNCHANGED dvars
    \/ \E h \in SeqHandlers : StepQuota(h) /\ UNCHANGED dvars
    \/ \E h \in SeqHandlers, ok \in BOOLEAN : StepAct(h, ok) /\ UNCHANGED dvars
    \/ \E h \in SeqHandlers, rb \in BOOLEAN : StepArchive(h, rb) /\ UNCHANGED dvars
    \/ \E h \in SeqHandlers : StepConsume(h) /\ UNCHANGED dvars
    \/ \E h \in SeqHandlers : StepCount(h) /\ UNCHANGED dvars
    \/ \E h \in SeqHandlers : Return(h) /\ UNCHANGED dvars
    \/ Tick(timedelta_days(1)) /\ UNCHANGED hvars

SpecHandlers == InitHandlers /\ [][NextHandlers]_vars

\* get_db blocks entered so far
RunsStarted == run["h1"].runs + run["h2"].runs

\* a free user with the larger plan limits and no personal override
DeliveryUser == CHOOSE u \in QuotaUsers : u.daily = NoOverride /\ u.plan["convert"] > 0

\* ---- specification: the daily quota ledger, concurrent handlers -----------
\* a free user on the first message of a day, handled by concurrent updates
InitQuotaConc ==
    /\ now = 0
    /\ user \in QuotaUsers
    /\ trial_usage = None
    /\ quota_usage = NoRows
    /\ sess = [h \in Handlers |-> ClosedSession]
    /\ last = NoCall
    /\ run = [h \in Handlers |-> Idle]
    /\ delivered = NoDeliveries
    /\ panel = NoPanel
    /\ tz = UTC
    /\ retry = NoRetry
    /\ conv = NoConv

NextQuotaConc ==
    \/ \E h \in Handlers :
         RunsStarted < MaxRuns /\ Begin(h) /\ run' = [run EXCEPT ![h].runs = @ + 1]
                               /\ UNCHANGED dvars
    \/ \E h \in Handlers : Commit(h) /\ UNCHANGED hvars
    \/ \E h \in Handlers, f \in QuotaKinds : HasQuota(h, f) /\ UNCHANGED hvars
    \/ \E h \in Handlers, f \in QuotaKinds : CanUseFeature(h, f, FALSE) /\ UNCHANGED hvars
    \/ \E h \in Handlers, f \in QuotaKinds :
         CanWrite(h) /\ UsedBelow(h, 1) /\ IncrementQuota(h, f, 1) /\ UNCHANGED hvars
    \/ \E h \in Handlers : GetQuotaStatus(h) /\ UNCHANGED hvars

SpecQuotaConc == InitQuotaConc /\ [][NextQuotaConc]_vars

\* ---- specification: the daily ledger of one date under overlapping handlers -
\* a slow handler overlaps with two handlers that run one after another;
\* today's row is absent or was created by an earlier check
InitQuotaRace ==
    /\ now = 0
    /\ user = PlainUser
    /\ trial_usage = None
    /\ quota_usage \in {NoRows, [NoRows EXCEPT ![0] = Some(NewQuotaUsage)]}
    /\ sess = [h \in Handlers |-> ClosedSession]
    /\ last = NoCall
    /\ run = [h \in Handlers |-> Idle]
    /\ delivered = NoDeliveries
    /\ panel = NoPanel
    /\ tz = UTC
    /\ retry = NoRetry
    /\ conv = NoConv

NextQuotaRace ==
    \/ \E h \in Handlers :
         RunsStarted <= MaxRuns /\ Begin(h) /\ run' = [run EXCEPT ![h].runs = @ + 1]
                                /\ UNCHANGED dvars
    \/ \E h \in Handlers : Commit(h) /\ UNCHANGED hvars
    \/ \E h \in Handlers, f \in QuotaKinds : HasQuota(h, f) /\ UNCHANGED hvars
    \/ \E h \in Handlers, f \in QuotaKinds :
         CanWrite(h) /\ UsedBelow(h, 1) /\ IncrementQuota(h, f, 1) /\ UNCHANGED hvars
    \/ \E h \in Handlers : GetQuotaStatus(h) /\ UNCHANGED hvars

SpecQuotaRace == InitQuotaRace /\ [][NextQuotaRace]_vars

\* ---- specification: deliveries of the trial features, one message at a time
\* the handlers of the trial-gated features
TrialHandlerKinds == {name \in HandlerKinds : HandlerOf(name).trial # None}

\* the result of a trial-gated action that answered is sent to the user
Deliver(h, ok) ==
    /\ delivered' =
        IF ok /\ HandlerOf(run[h].handler).trial # None
        THEN [delivered EXCEPT ![HandlerOf(run[h].handler).trial[1]] = @ + 1]
        ELSE delivered
    /\ UNCHANGED <<panel, tz, retry, conv>>

\* a new user at instant 0; the clock stands still, so no reset falls due
InitDelivery ==
    /\ now = 0
    /\ user = DeliveryUser
    /\ trial_usage = None
    /\ quota_usage = NoRows
    /\ sess = [h \in Handlers |-> ClosedSession]
    /\ last = NoCall
    /\ run = [h \in Handlers |-> Idle]
    /\ delivered = NoDeliveries
    /\ panel = NoPanel
    /\ tz = UTC
    /\ retry = NoRetry
    /\ conv = NoConv

NextDelivery ==
    \/ \E h \in SeqHandlers, name \in TrialHandlerKinds :
         /\ delivered[HandlerOf(name).trial[1]] <= TRIAL_USES_PER_PERIOD
         /\ Dispatch(h, name) /\ UNCHANGED dvars
    \/ \E h \in SeqHandlers : StepReset(h) /\ UNCHANGED dvars
    \/ \E h \in SeqHandlers : StepTrial(h) /\ UNCHANGED dvars
    \/ \E h \in SeqHandlers : StepQuota(h) /\ UNCHANGED dvars
    \/ \E h \in SeqHandlers, ok \in BOOLEAN : StepAct(h, ok) /\ Deliver(h, ok)
    \/ \E h \in SeqHandlers, rb \in BOOLEAN : StepArchive(h, rb) /\ UNCHANGED dvars
    \/ \E h \in SeqHandlers : StepConsume(h) /\ UNCHANGED dvars
    \/ \E h \in SeqHandlers : StepCount(h) /\ UNCHANGED dvars
    \/ \E h \in SeqHandlers : Return(h) /\ UNCHANGED dvars

SpecDelivery == InitDelivery /\ [][NextDelivery]_vars

\* ---- specification: the trial ledger, concurrent handlers ---------------
\* trial rows the sequential ledger reaches from a row created at instant 0
InitTrialRows ==
    { [last_reset_at |-> 0, image_gen_used |-> a, image_edit_used |-> b, pptx_used |-> b] :
        a \in {0, TRIAL_USES_PER_PERIOD - 1}, b \in {0, TRIAL_USES_PER_PERIOD - 1} }

\* the handlers start on the eve of the first reset: the user has no trial
\* row yet, or has the row created at instant 0 with some use made of it
InitTrialConc ==
    /\ now = timedelta_days(TRIAL_PERIOD_DAYS) - 1
    /\ trial_usage \in {None} \cup {Some(r) : r \in InitTrialRows}
    /\ quota_usage = NoRows
    /\ sess = [h \in Handlers |-> ClosedSession]
    /\ last = NoCall
    /\ run = [h \in Handlers |-> Idle]
    /\ delivered = NoDeliveries
    /\ panel = NoPanel
    /\ tz = UTC
    /\ retry = NoRetry
    /\ conv = NoConv
    /\ user = PlainUser

NextTrialConc ==
    \/ \E h \in Handlers :
         RunsStarted < MaxRuns /\ Begin(h) /\ run' = [run EXCEPT ![h].runs = @ + 1]
                               /\ UNCHANGED dvars
    \/ \E h \in Handlers : Commit(h) /\ UNCHANGED hvars
    \/ Tick(timedelta_days(TRIAL_PERIOD_DAYS)) /\ UNCHANGED hvars
    \/ \E h \in Handlers : MaybeResetTrial(h) /\ UNCHANGED hvars
    \/ \E h \in Handlers, f \in TrialKinds : TrialRemaining(h, f) /\ UNCHANGED hvars
    \/ \E h \in Handlers, f \in TrialKinds : CanWrite(h) /\ ConsumeTrial(h, f) /\ UNCHANGED hvars

SpecTrialConc == InitTrialConc /\ [][NextTrialConc]_vars

\* ---- specification: the last trial use taken by concurrent handlers ---------
\* the handlers run within one trial period: the clock stands still
NextConsumeRace ==
    \/ \E h \in Handlers :
         RunsStarted < MaxRuns /\ Begin(h) /\ run' = [run EXCEPT ![h].runs = @ + 1]
                               /\ UNCHANGED dvars
    \/ \E h \in Handlers : Commit(h) /\ UNCHANGED hvars
    \/ \E h \in Handlers, f \in TrialKinds : TrialRemaining(h, f) /\ UNCHANGED hvars
    \/ \E h \in Handlers, f \in TrialKinds : CanWrite(h) /\ ConsumeTrial(h, f) /\ UNCHANGED hvars

SpecConsumeRace == InitTrialConc /\ [][NextConsumeRace]_vars

\* ---- specification: the trial ledger on a store that can fail --------------
NextTrialFail ==
    \/ \E h \in SeqHandlers : Begin(h) /\ UNCHANGED hvars
    \/ \E h \in SeqHandlers : Commit(h) /\ UNCHANGED hvars
    \/ \E h \in SeqHandlers : StoreFails(h) /\ UNCHANGED hvars
    \/ Tick(timedelta_days(TRIAL_PERIOD_DAYS)) /\ UNCHANGED hvars
    \/ \E h \in SeqHandlers : MaybeResetTrial(h) /\ UNCHANGED hvars
    \/ \E h \in SeqHandlers, f \in TrialKinds : CanWrite(h) /\ ConsumeTrial(h, f) /\ UNCHANGED hvars

SpecTrialFail == InitTrialConc /\ [][NextTrialFail]_vars

\* ---- specification: the rolling reset made by concurrent handlers ----------
\* the clock runs from the eve of the first reset to the instant after it
NextResetConc ==
    \/ \E h \in Handlers :
         RunsStarted < MaxRuns /\ Begin(h) /\ run' = [run EXCEPT ![h].runs = @ + 1]
                               /\ UNCHANGED dvars
    \/ \E h \in Handlers : Commit(h) /\ UNCHANGED hvars
    \/ Tick(timedelta_days(TRIAL_PERIOD_DAYS) + 1) /\ UNCHANGED hvars
    \/ \E h \in Handlers : MaybeResetTrial(h) /\ UNCHANGED hvars
    \/ \E h \in Handlers, f \in TrialKinds : TrialRemaining(h, f) /\ UNCHANGED hvars

SpecResetConc == InitTrialConc /\ [][NextResetConc]_vars

\* ---- specification: the admin panel -----------------------------------------
\* the user the admins grant premium to: on the free plan, with no premium or
\* with a premium that runs out at PremiumEnd, and with some use on record
AdminTargets == {u \in Users : ~u.is_admin /\ u.daily = NoOverride /\ u.plan = free_plan}
GrantDays == {0, 1, 2}

InitAdmin ==
    /\ now = 0
    /\ user \in AdminTargets
    /\ trial_usage = Some([NewTrialUsage(0) EXCEPT !.image_gen_used = 1])
    /\ quota_usage = [NoRows EXCEPT ![0] = Some([NewQuotaUsage EXCEPT !["convert"] = 1])]
    /\ sess = [h \in Handlers |-> ClosedSession]
    /\ last = NoCall
    /\ run = [h \in Handlers |-> Idle]
    /\ delivered = NoDeliveries
    /\ panel \in {[NoPanel EXCEPT !.is_admin = [a \in Admins |-> a = "a1" \/ b]] : b \in BOOLEAN}
    /\ tz = UTC
    /\ retry = NoRetry
    /\ conv = NoConv

NextAdmin ==
    \/ Tick(timedelta_days(2)) /\ UNCHANGED hvars
    \/ \E a \in Admins : admin_entry(a)
    \/ \E a \in Admins : admin_exit(a)
    \/ \E a \in Admins : cancel_command(a)
    \/ \E a \in Admins, b \in Admins : handle_make_admin(a, b)
    \/ \E a \in Admins, b \in Admins : handle_remove_admin(a, b)
    \/ \E a \in Admins : handle_grant_premium_user(a)
    \/ \E a \in Admins, days \in GrantDays :
         /\ grant_expires(user, now, days) <= timedelta_days(MaxDayTrial)
         /\ handle_grant_premium_days(a, days)
    \/ \E a \in Admins : handle_revoke_premium(a)

SpecAdmin == InitAdmin /\ [][NextAdmin]_vars

\* ---- specification: user management in the admin panel ----------------------
NextAdminUsers ==
    \/ \E a \in Admins : admin_entry(a)
    \/ \E a \in Admins : admin_exit(a)
    \/ \E a \in Admins, b \in Admins : handle_make_admin(a, b)
    \/ \E a \in Admins, b \in Admins : handle_remove_admin(a, b)
    \/ \E a \in Admins, b \in Admins : handle_block_user(a, b)
    \/ \E a \in Admins, b \in Admins : handle_unblock_user(a, b)

SpecAdminUsers == InitAdmin /\ [][NextAdminUsers]_vars

\* ---- specification: chat messages handled concurrently ----------------------
\* two chat messages of one free user are handled at the same time
\* (concurrent_updates) on a date with some chats already on record
ChatKinds == {"quick_chat", "code_chat"}

ChatQuotaRows ==
    { [NewQuotaUsage EXCEPT !["quick_chat"] = c, !["code_chat"] = c] :
        c \in 0..(PlainUser.plan["quick_chat"] - 1) }

InitChatRace ==
    /\ now = 0
    /\ user = PlainUser
    /\ trial_usage = None
    /\ quota_usage \in {[NoRows EXCEPT ![0] = Some(r)] : r \in ChatQuotaRows}
    /\ sess = [h \in Handlers |-> ClosedSession]
    /\ last = NoCall
    /\ run = [h \in Handlers |-> Idle]
    /\ delivered = NoDeliveries
    /\ panel = NoPanel
    /\ tz = UTC
    /\ retry = NoRetry
    /\ conv = NoConv

NextChatRace ==
    \/ \E h \in Handlers, name \in ChatKinds : Dispatch(h, name) /\ UNCHANGED dvars
    \/ \E h \in Handlers : StepQuota(h) /\ UNCHANGED dvars
    \/ \E h \in Handlers, ok \in BOOLEAN : StepAct(h, ok) /\ UNCHANGED dvars
    \/ \E h \in Handlers : StepCount(h) /\ UNCHANGED dvars
    \/ \E h \in Handlers : Return(h) /\ UNCHANGED dvars

SpecChatRace == InitChatRace /\ [][NextChatRace]_vars

\* ---- specification: the daily ledger on hosts of different time zones -------
\* offsets of the host's local time from UTC, in ticks
HostZones == {-1, 0, 1}

\* a free user without rows, from the start of UTC day 1 on
InitClock ==
    /\ now = timedelta_days(1)
    /\ tz \in HostZones
    /\ retry = NoRetry
    /\ conv = NoConv
    /\ user = PlainUser
    /\ trial_usage = None
    /\ quota_usage = NoRows
    /\ sess = [h \in Handlers |-> ClosedSession]
    /\ last = NoCall
    /\ run = [h \in Handlers |-> Idle]
    /\ delivered = NoDeliveries
    /\ panel = NoPanel

NextClock ==
    \/ \E h \in SeqHandlers : Begin(h) /\ UNCHANGED hvars
    \/ \E h \in SeqHandlers : Commit(h) /\ UNCHANGED hvars
    \/ Tick(timedelta_days(3)) /\ UNCHANGED hvars
    \/ \E h \in SeqHandlers, f \in QuotaKinds : HasQuota(h, f) /\ UNCHANGED hvars
    \/ \E h \in SeqHandlers, f \in QuotaKinds :
         CanWrite(h) /\ UsedBelow(h, 1) /\ IncrementQuota(h, f, 1) /\ UNCHANGED hvars
    \/ \E h \in SeqHandlers : GetQuotaStatus(h) /\ UNCHANGED hvars

SpecClock == InitClock /\ [][NextClock]_vars

\* ---- specification: the exits of a get_db block ------------------------------
\* one handler after another works on both ledgers within one trial period;
\* the block ends normally, or its body raises, or the store fails and the
\* commit raises
NextGetDb ==
    \/ \E h \in SeqHandlers : Begin(h) /\ UNCHANGED hvars
    \/ \E h \in SeqHandlers : Commit(h) /\ UNCHANGED hvars
    \/ \E h \in SeqHandlers : BlockRaises(h) /\ UNCHANGED hvars
    \/ \E h \in SeqHandlers : StoreFails(h) /\ UNCHANGED hvars
    \/ \E h \in SeqHandlers, f \in TrialKinds : CanWrite(h) /\ ConsumeTrial(h, f) /\ UNCHANGED hvars
    \/ \E h \in SeqHandlers, f \in QuotaKinds :
         CanWrite(h) /\ UsedBelow(h, 1) /\ IncrementQuota(h, f, 1) /\ UNCHANGED hvars

SpecGetDb == InitTrialConc /\ [][NextGetDb]_vars

\* ---- specification: handlers that archive their result ------------------------
\* a free user whose trial period runs out while the messages are handled
InitArchive ==
    /\ now = timedelta_days(TRIAL_PERIOD_DAYS) - 1
    /\ user = DeliveryUser
    /\ trial_usage \in {None} \cup {Some(r) : r \in AccessTrialRows}
    /\ quota_usage = NoRows
    /\ sess = [h \in Handlers |-> ClosedSession]
    /\ last = NoCall
    /\ run = [h \in Handlers |-> Idle]
    /\ delivered = NoDeliveries
    /\ panel = NoPanel
    /\ tz = UTC
    /\ retry = NoRetry
    /\ conv = NoConv

NextArchive ==
    \/ \E h \in SeqHandlers, name \in TrialHandlerKinds :
         UsedBelow(h, 1) /\ Dispatch(h, name) /\ UNCHANGED dvars
    \/ \E h \in SeqHandlers : StepReset(h) /\ UNCHANGED dvars
    \/ \E h \in SeqHandlers : StepTrial(h) /\ UNCHANGED dvars
    \/ \E h \in SeqHandlers : StepQuota(h) /\ UNCHANGED dvars
    \/ \E h \in SeqHandlers, ok \in BOOLEAN : StepAct(h, ok) /\ UNCHANGED dvars
    \/ \E h \in SeqHandlers, rb \in BOOLEAN : StepArchive(h, rb) /\ UNCHANGED dvars
    \/ \E h \in SeqHandlers : StepConsume(h) /\ UNCHANGED dvars
    \/ \E h \in SeqHandlers : StepCount(h) /\ UNCHANGED dvars
    \/ \E h \in SeqHandlers : Return(h) /\ UNCHANGED dvars
    \/ Tick(timedelta_days(TRIAL_PERIOD_DAYS) + 1) /\ UNCHANGED hvars

SpecArchive == InitArchive /\ [][NextArchive]_vars

\* ---- properties -----------------------------------------------------------
\* the trial row a call of handler h works on: the row its session holds,
\* else the committed row, else the row it creates
StoredTrial(h) ==
    IF sess[h].trial # None THEN sess[h].trial[1]
    ELSE IF trial_usage # None THEN trial_usage[1]
    ELSE NewTrialUsage(now)

\* C1: for a non-premium, non-admin user and calls handled one after another,
\* a consume_trial(f) call never leaves f_used above TRIAL_USES_PER_PERIOD;
\* below the cap it returns true and adds exactly 1 to f_used, at the cap it
\* returns false and changes no field of the record; the commit stores the
\* record as the call left it.
C1_ConsumeTrialCap ==
    [][\A h \in SeqHandlers :
         /\ \A f \in TrialKinds :
              (NonPremium /\ ConsumeTrial(h, f) /\ ~last'.raised) =>
                LET before == StoredTrial(h)
                    after == sess'[h].trial[1]
                    used == before[TrialField(f)]
                IN /\ after[TrialField(f)] <= TRIAL_USES_PER_PERIOD
                   /\ used < TRIAL_USES_PER_PERIOD =>
                        /\ last'.val = TRUE
                        /\ after = [before EXCEPT ![TrialField(f)] = used + 1]
                   /\ used = TRIAL_USES_PER_PERIOD =>
                        /\ last'.val = FALSE
                        /\ after = before
                        /\ sess'[h].trial_upd = sess[h].trial_upd
         /\ (Commit(h) /\ sess[h].trial # None) =>
              /\ trial_usage' = sess[h].trial
              /\ \A c \in TrialCounters : trial_usage'[1][c] <= TRIAL_USES_PER_PERIOD
      ]_vars

\* the fourth consume_trial call of a period was refused
C1_Witness ==
    /\ NonPremium
    /\ last.op = "consume_trial" /\ ~last.raised /\ last.val = FALSE
    /\ sess[last.h].trial[1][TrialField(last.f)] = TRIAL_USES_PER_PERIOD

\* C2: in every reachable state of concurrently running handlers, each
\* committed trial counter, and each counter a session is about to write
\* back, lies between 0 and TRIAL_USES_PER_PERIOD.
C2_TrialCountersInRange ==
    /\ trial_usage # None =>
         \A c \in TrialCounters :
            trial_usage[1][c] >= 0 /\ trial_usage[1][c] <= TRIAL_USES_PER_PERIOD
    /\ \A h \in Handlers : sess[h].trial # None =>
         \A c \in TrialCounters :
            sess[h].trial[1][c] >= 0 /\ sess[h].trial[1][c] <= TRIAL_USES_PER_PERIOD

\* one handler has committed the last use of a feature while another, which
\* read the same earlier count, still holds its own increment to write back
C2_Witness ==
    \E h \in Handlers, c \in TrialCounters :
        /\ trial_usage # None /\ trial_usage[1][c] = TRIAL_USES_PER_PERIOD
        /\ sess[h].open /\ sess[h].trial # None /\ ~sess[h].trial_ins
        /\ c \in sess[h].trial_upd
        /\ sess[h].trial[1][c] = TRIAL_USES_PER_PERIOD

\* C6: a maybe_reset_trial call made before last_reset_at + TRIAL_PERIOD_DAYS
\* returns false and leaves the record as it was; made at that instant or
\* later it returns true, sets last_reset_at to the instant of the call and
\* every counter to 0, so that trial_remaining is TRIAL_USES_PER_PERIOD for
\* every feature kind.
C6_RollingReset ==
    [][\A h \in SeqHandlers :
         (MaybeResetTrial(h) /\ ~last'.raised) =>
            LET before == StoredTrial(h)
                after == sess'[h].trial[1]
            IN IF now < before.last_reset_at + TRIAL_PERIOD_DAYS * TicksPerDay
               THEN last'.val = FALSE /\ after = before
               ELSE /\ last'.val = TRUE
                    /\ after.last_reset_at = now
                    /\ \A c \in TrialCounters : after[c] = 0
                    /\ \A f \in TrialKinds :
                         trial_remaining(after, f) = TRIAL_USES_PER_PERIOD
      ]_vars

\* a record with all three counters exhausted has just been reset
C6_Witness ==
    /\ last.op = "maybe_reset_trial" /\ ~last.raised /\ last.val = TRUE
    /\ trial_usage # None
    /\ \A c \in TrialCounters : trial_usage[1][c] = TRIAL_USES_PER_PERIOD
    /\ \A c \in TrialCounters : sess[last.h].trial[1][c] = 0
    /\ sess[last.h].trial[1].last_reset_at = now
    /\ now > trial_usage[1].last_reset_at + TRIAL_PERIOD_DAYS * TicksPerDay

\* the quota row of date d a call of handler h works on; no row, nothing used
StoredQuota(h, d) ==
    IF sess[h].quota[d] # None THEN sess[h].quota[d][1]
    ELSE IF quota_usage[d] # None THEN quota_usage[d][1]
    ELSE NewQuotaUsage

StoredQuotaNext(h, d) ==
    IF sess'[h].quota[d] # None THEN sess'[h].quota[d][1]
    ELSE IF quota_usage'[d] # None THEN quota_usage'[d][1]
    ELSE NewQuotaUsage

StoredTrialNext(h) ==
    IF sess'[h].trial # None THEN sess'[h].trial[1]
    ELSE IF trial_usage' # None THEN trial_usage'[1]
    ELSE NewTrialUsage(now')

\* the limit of the user for kind f: the personal override when it is set
ResolvedLimit(f) ==
    IF user.daily[f] = None THEN user.plan[f] ELSE user.daily[f][1]

PremiumEquivalent ==
    user.is_admin \/ (user.premium_until # None /\ user.premium_until[1] > now)

\* C3: for a non-premium, non-admin user with daily limit L > 0 for f,
\* has_quota(f) returns true exactly while today's counter is below L; every
\* increment_quota(f) adds 1 to today's counter and the commit stores it, so
\* after L increments on date D has_quota is false on D; no row exists for a
\* date that has not begun, so on D+1 the counter reads 0 and has_quota is
\* true again without any reset.
C3_DailyCap ==
    [][\A h \in SeqHandlers :
         /\ \A f \in QuotaKinds :
              (NonPremium /\ ResolvedLimit(f) > 0) =>
                 /\ HasQuota(h, f) =>
                      last'.val = (StoredQuota(h, today)[f] < ResolvedLimit(f))
                 /\ IncrementQuota(h, f, 1) =>
                      StoredQuotaNext(h, today) =
                         [StoredQuota(h, today) EXCEPT ![f] = @ + 1]
         /\ Commit(h) =>
              \A d \in Dates : sess[h].quota[d] # None => quota_usage'[d] = sess[h].quota[d]
         /\ \A d \in Dates : d > now' \div TicksPerDay =>
              quota_usage'[d] = None /\ sess'[h].quota[d] = None
      ]_vars

\* the day after the limit was used up, has_quota is true on a counter of 0
C3_Witness ==
    /\ NonPremium
    /\ last.op = "has_quota" /\ last.val = TRUE
    /\ today = 1
    /\ ResolvedLimit(last.f) > 0
    /\ quota_usage[0] # None /\ quota_usage[0][1][last.f] = ResolvedLimit(last.f)
    /\ sess[last.h].quota[1] # None /\ sess[last.h].quota[1][1][last.f] = 0

C5_PremiumBypass ==
    (last.op = "can_use_feature" /\ PremiumEquivalent) =>
        ~last.raised /\ last.val[1] = TRUE

\* a premium user (not an admin) was admitted to a trial-class feature with
\* the trial of that feature used up and the daily counters above the limit
C5_Witness ==
    /\ last.op = "can_use_feature" /\ last.f[2] = TRUE /\ last.val[1] = TRUE
    /\ ~user.is_admin /\ PremiumEquivalent
    /\ trial_usage # None /\ trial_usage[1][TrialField(last.f[1])] = TRIAL_USES_PER_PERIOD
    /\ quota_usage[today] # None
    /\ quota_usage[today][1]["convert"] > ResolvedLimit("convert")

\* C7: the limit has_quota compares with, and the limit get_quota_status
\* reports, is the personal override of the kind when it is set, and the
\* plan's value only when it is not.
C7_OverridePrecedence ==
    /\ (last.op = "get_quota_status" /\ ~last.raised) =>
          \A k \in QuotaKinds :
             last.val[k][2] = IF user.daily[k] # None THEN user.daily[k][1]
                              ELSE user.plan[k]
    /\ (last.op = "has_quota" /\ NonPremium) =>
          last.val = (StoredQuota(last.h, today)[last.f] <
                        IF user.daily[last.f] # None THEN user.daily[last.f][1]
                        ELSE user.plan[last.f])

\* get_quota_status has reported an override that differs from the plan
C7_Witness ==
    /\ last.op = "get_quota_status" /\ ~last.raised
    /\ user.daily["convert"] # None
    /\ user.daily["convert"][1] # user.plan["convert"]
    /\ last.val["convert"][2] = user.daily["convert"][1]
    /\ last.val["pptx"][2] = user.plan["pptx"]

\* C8: get_quota_status and get_trial_status change no stored counter and
\* not last_reset_at, and a second call right after a first one, at the same
\* instant, returns what the first returned.
C8_StatusReadsRepeat ==
    [][\A h \in SeqHandlers :
         /\ (GetQuotaStatus(h) \/ GetTrialStatus(h)) =>
              /\ \A d \in Dates : StoredQuotaNext(h, d) = StoredQuota(h, d)
              /\ StoredTrialNext(h) = StoredTrial(h)
              /\ quota_usage' = quota_usage /\ trial_usage' = trial_usage
              /\ ~last'.raised
         /\ (last.op = "get_quota_status" /\ last.h = h /\ GetQuotaStatus(h)) =>
              last'.val = last.val
         /\ (last.op = "get_trial_status" /\ last.h = h /\ GetTrialStatus(h)) =>
              last'.val = last.val
      ]_vars

\* get_trial_status has answered for a record with used-up counters
C8_Witness ==
    /\ last.op = "get_trial_status" /\ ~last.raised
    /\ last.val["image_gen"].remaining = 0
    /\ sess[last.h].trial # None
    /\ sess[last.h].trial[1].image_gen_used = TRIAL_USES_PER_PERIOD
    /\ sess[last.h].quota[today] # None

\* C9: for a non-premium, non-admin user can_use_feature does not raise; for
\* a trial-class feature it returns (false, trial_exhausted) when no trial use
\* remains and (true, trial) otherwise, without touching the daily quota; for
\* a quota-class feature it returns (false, quota_exhausted) when today's
\* counter is not below the limit and (true, quota) otherwise.
C9_TypedDenial ==
    [][\A h \in SeqHandlers :
         /\ \A f \in TrialKinds :
              (NonPremium /\ CanUseFeature(h, f, TRUE)) =>
                 /\ ~last'.raised
                 /\ last'.val =
                      IF StoredTrial(h)[TrialField(f)] >= TRIAL_USES_PER_PERIOD
                      THEN <<FALSE, "trial_exhausted">> ELSE <<TRUE, "trial">>
                 /\ sess'[h].quota = sess[h].quota
                 /\ sess'[h].quota_ins = sess[h].quota_ins
         /\ \A f \in QuotaKinds :
              (NonPremium /\ CanUseFeature(h, f, FALSE)) =>
                 /\ ~last'.raised
                 /\ last'.val =
                      IF StoredQuota(h, today)[f] < ResolvedLimit(f)
                      THEN <<TRUE, "quota">> ELSE <<FALSE, "quota_exhausted">>
      ]_vars

\* a trial-class feature was denied with reason trial_exhausted while the
\* daily counter of the same name was still below its limit
C9_Witness ==
    /\ NonPremium
    /\ last.op = "can_use_feature" /\ ~last.raised
    /\ last.f = <<"pptx", TRUE>>
    /\ last.val = <<FALSE, "trial_exhausted">>
    /\ StoredQuota(last.h, today)["pptx"] < ResolvedLimit("pptx")
\* C10: whenever a handler has performed its gated action for a message, it
\* has called can_use_feature earlier in the handling of that message.
C10_FacadeBeforeAction ==
    \A h \in Handlers : run[h].acted => "can_use_feature" \in run[h].calls

\* C11: for a non-premium, non-admin user whose messages are handled one at
\* a time, no trial-gated feature delivers more than TRIAL_USES_PER_PERIOD
\* results between two resets of the trial.
C11_DeliveriesWithinTrial ==
    NonPremium => \A f \in TrialKinds : delivered[f] <= TRIAL_USES_PER_PERIOD

\* C12: when the store raises while has_quota, called directly or through
\* can_use_feature, reads or creates today's row, the call raises: it returns
\* no admission decision.
C12_HasQuotaPropagates ==
    ( /\ \/ last.op = "has_quota"
         \/ (last.op = "can_use_feature" /\ last.f[2] = FALSE)
      /\ NonPremium
      /\ sess[last.h].broken ) => last.raised

\* C13: an increment_quota call in which the store fails does not raise, and
\* the get_db block of the handler then ends without raising, so that no
\* exception reaches the handler and its error report to the user.
C13_IncrementFailureSwallowed ==
    [][\A h \in Handlers :
         /\ \A f \in QuotaKinds : IncrementQuota(h, f, 1) => ~last'.raised
         /\ (Commit(h) /\ sess[h].swallowed) => ~last'.raised
      ]_vars

\* rows of date d in the table, counting the rows open transactions inserted
QuotaRowsOf(d) ==
    Cardinality({h \in Handlers : sess[h].open /\ ~sess[h].broken /\ d \in sess[h].quota_ins})
        + (IF quota_usage[d] # None THEN 1 ELSE 0)

\* C20: in every reachable state the user has at most one quota_usage row
\* per date, also while concurrent handlers run get-or-create for a date
\* that has no row yet.
C20_OneRowPerDay ==
    \A d \in Dates : QuotaRowsOf(d) <= 1

\* one handler holds the row it inserted for today; the get-or-create of a
\* concurrent handler for the same date has failed
C20_Witness ==
    \E h \in Handlers, g \in Handlers :
        /\ h # g
        /\ sess[h].open /\ ~sess[h].broken /\ today \in sess[h].quota_ins
        /\ sess[g].open /\ sess[g].broken
        /\ quota_usage[today] = None

\* C14: when the store fails while consume_trial or maybe_reset_trial reads,
\* creates or writes the trial record, the call raises; and a write for which
\* a call has returned true is stored when the get_db block of the handler
\* ends: success is never reported for a write that is not stored.
C14_TrialFailurePropagates ==
    [][\A h \in SeqHandlers :
         /\ ( /\ sess[h].broken
              /\ \/ MaybeResetTrial(h)
                 \/ \E f \in TrialKinds : ConsumeTrial(h, f) ) => last'.raised
         /\ Commit(h) =>
              \A c \in sess[h].trial_upd :
                 trial_usage' # None /\ trial_usage'[1][c] = sess[h].trial[1][c]
      ]_vars

\* C15: has_quota never changes the value of a counter of any daily quota
\* row: the stored rows and the rows the session holds keep every counter,
\* no column is marked changed, and the only row it may add is today's row
\* of the user, created with every counter at 0.
C15_HasQuotaFrame ==
    [][\A h \in SeqHandlers, f \in QuotaKinds :
         HasQuota(h, f) =>
            /\ quota_usage' = quota_usage
            /\ sess'[h].quota_upd = sess[h].quota_upd
            /\ sess'[h].quota_ins \subseteq sess[h].quota_ins \cup {today}
            /\ \A d \in Dates :
                 /\ StoredQuotaNext(h, d) = StoredQuota(h, d)
                 /\ sess'[h].quota[d] # sess[h].quota[d] =>
                      /\ d = today
                      /\ sess[h].quota[d] = None
                      /\ quota_usage[d] = None => sess'[h].quota[d] = Some(NewQuotaUsage)
                 /\ (d \in sess'[h].quota_ins /\ d \notin sess[h].quota_ins) =>
                      sess'[h].quota[d] = Some(NewQuotaUsage)
      ]_vars

\* has_quota has created the row of day 1 with zero counters while the row of
\* day 0 keeps the uses recorded on it
C15_Witness ==
    /\ last.op = "has_quota"
    /\ today = 1
    /\ 1 \in sess[last.h].quota_ins
    /\ sess[last.h].quota[1] = Some(NewQuotaUsage)
    /\ quota_usage[1] = None
    /\ quota_usage[0] # None /\ quota_usage[0][1][last.f] > 0

\* C16: increment_quota(user, f, amount) adds exactly amount to counter f of
\* today's row (a row created with zero counters when absent), leaves the
\* other counters, the rows of other dates and the trial record unchanged,
\* and does so whatever the counter and the limit are: it never refuses and
\* never raises, so the counter can exceed the limit.
C16_IncrementExact ==
    [][\A h \in SeqHandlers, f \in QuotaKinds, a \in Amounts :
         IncrementQuota(h, f, a) =>
            /\ ~last'.raised
            /\ sess'[h].quota[today] # None
            /\ StoredQuotaNext(h, today) = [StoredQuota(h, today) EXCEPT ![f] = @ + a]
            /\ \A d \in Dates \ {today} :
                 /\ sess'[h].quota[d] = sess[h].quota[d]
                 /\ StoredQuotaNext(h, d) = StoredQuota(h, d)
            /\ quota_usage' = quota_usage
            /\ trial_usage' = trial_usage /\ sess'[h].trial = sess[h].trial
      ]_vars

\* increment_quota has recorded a use on a counter that was already at its
\* positive limit: the counter is above the limit
C16_Witness ==
    /\ last.op = "increment_quota"
    /\ ResolvedLimit(last.f) > 0
    /\ sess[last.h].quota[today] # None
    /\ sess[last.h].quota[today][1][last.f] - last.val >= ResolvedLimit(last.f)

\* C17: on an existing record trial_remaining(user, f) returns
\* max(0, TRIAL_USES_PER_PERIOD - f_used), never a negative number, and only
\* reads: no counter and not last_reset_at changes, in the session or in the
\* store, and no reset happens even when TRIAL_PERIOD_DAYS or more have
\* elapsed since last_reset_at.
C17_TrialRemainingPure ==
    [][\A h \in SeqHandlers, f \in TrialKinds :
         (TrialRemaining(h, f) /\ ~last'.raised /\ trial_usage # None) =>
            /\ last'.val = Max(0, TRIAL_USES_PER_PERIOD - StoredTrial(h)[TrialField(f)])
            /\ last'.val >= 0
            /\ StoredTrialNext(h) = StoredTrial(h)
            /\ trial_usage' = trial_usage
            /\ sess'[h].trial_upd = sess[h].trial_upd
            /\ sess'[h].trial_ins = sess[h].trial_ins
      ]_vars

\* trial_remaining has answered 0 on an exhausted counter whose period had
\* elapsed, and the record still holds the old counter and last_reset_at
C17_Witness ==
    /\ last.op = "trial_remaining" /\ ~last.raised /\ last.val = 0
    /\ sess[last.h].trial # None
    /\ sess[last.h].trial[1][TrialField(last.f)] = TRIAL_USES_PER_PERIOD
    /\ now >= sess[last.h].trial[1].last_reset_at + timedelta_days(TRIAL_PERIOD_DAYS)
    /\ sess[last.h].trial_upd = {}

\* C18: a maybe_reset_trial call at the same instant as a call that already
\* ran (the call before it in the same session, or any call that set
\* last_reset_at to the present instant) returns false and leaves the record
\* unchanged; and whenever maybe_reset_trial returns false, no counter and
\* not last_reset_at has changed.
C18_ResetIdempotent ==
    [][\A h \in SeqHandlers :
         (MaybeResetTrial(h) /\ ~last'.raised) =>
            LET same == /\ StoredTrialNext(h) = StoredTrial(h)
                        /\ sess'[h].trial_upd = sess[h].trial_upd
                        /\ trial_usage' = trial_usage
            IN /\ (last.op = "maybe_reset_trial" /\ last.h = h /\ ~last.raised) =>
                     (last'.val = FALSE /\ same)
               /\ StoredTrial(h).last_reset_at = now => (last'.val = FALSE /\ same)
               /\ last'.val = FALSE => same
      ]_vars

\* the second call at the instant of a reset has returned false: the record
\* still is the freshly reset one
C18_Witness ==
    /\ last.op = "maybe_reset_trial" /\ ~last.raised /\ last.val = FALSE
    /\ trial_usage # None /\ sess[last.h].trial # None
    /\ trial_usage[1].last_reset_at < now
    /\ sess[last.h].trial[1].last_reset_at = now
    /\ \A c \in TrialCounters : sess[last.h].trial[1][c] = 0
    /\ \E c \in TrialCounters : trial_usage[1][c] = TRIAL_USES_PER_PERIOD

TrialRows ==
    Cardinality({h \in Handlers : sess[h].open /\ ~sess[h].broken /\ sess[h].trial_ins})
        + (IF trial_usage # None THEN 1 ELSE 0)

\* C21: in every reachable state the user has at most one trial_usage record,
\* also while two concurrent handlers both get-or-create it; a record is
\* created only by a trial operation that finds none, and is created with
\* every counter at 0 and last_reset_at equal to the instant of creation.
C21_OneTrialRecord ==
    /\ [](TrialRows <= 1)
    /\ [][\A h \in Handlers :
            (sess'[h].trial_ins /\ ~sess[h].trial_ins) =>
               /\ trial_usage = None
               /\ sess[h].trial = None
               /\ last'.op \in {"maybe_reset_trial", "trial_remaining", "consume_trial"}
               /\ last'.h = h
               /\ sess'[h].trial[1].last_reset_at = now
               /\ \A c \in TrialCounters :
                    sess'[h].trial[1][c] = (IF last'.op = "consume_trial"
                                              /\ c = TrialField(last'.f) THEN 1 ELSE 0)
         ]_vars

\* one handler holds the record it created at this instant, all counters 0;
\* the get-or-create of a concurrent handler has failed
C21_Witness ==
    \E h \in Handlers, g \in Handlers :
        /\ h # g
        /\ sess[h].open /\ ~sess[h].broken /\ sess[h].trial_ins
        /\ sess[h].trial = Some(NewTrialUsage(now))
        /\ sess[g].open /\ sess[g].broken
        /\ trial_usage = None

\* C22: within one calendar date no counter of the user's quota_usage row
\* ever decreases, whatever the interleaving of has_quota, increment_quota
\* and get_quota_status run by concurrent handlers with their own sessions:
\* a committed count is never overwritten by a smaller one.
C22_CountersNeverDecrease ==
    [][\A d \in Dates, k \in QuotaKinds :
         (quota_usage[d] # None /\ quota_usage'[d] # None) =>
            quota_usage'[d][1][k] >= quota_usage[d][1][k]
      ]_vars

\* whole days, rounded up
CeilDays(ticks) == -((-ticks) \div TicksPerDay)

\* C24: the days_until_reset returned by get_trial_status is the ceiling, in
\* whole days, of TRIAL_PERIOD_DAYS minus the time elapsed since
\* last_reset_at, and 0 when that difference is zero or negative; a fraction
\* of a day after the reset of a 7-day period it reads 7.
C24_DaysUntilResetCeiling ==
    (last.op = "get_trial_status" /\ ~last.raised) =>
        last.val.days_until_reset =
            Max(0, CeilDays(timedelta_days(TRIAL_PERIOD_DAYS) - (now - last.val.last_reset)))

C25_GrantPremium ==
    [][\A a \in Admins, d \in GrantDays :
         (handle_grant_premium_days(a, d) /\ last'.f = "done") =>
            /\ d > 0
            /\ user'.premium_until # None
            /\ user'.premium_until[1] > now
            /\ user.premium_until # None =>
                 user'.premium_until[1] >= user.premium_until[1]
            /\ user'.premium_until[1] =
                 (IF user.premium_until # None /\ user.premium_until[1] > now
                  THEN user.premium_until[1] ELSE now) + d * TicksPerDay
            /\ quota_usage' = quota_usage
            /\ trial_usage' = trial_usage
      ]_vars

\* one day has been granted on top of a premium that still had more than a
\* day to run
C25_Witness ==
    /\ last.op = "handle_grant_premium_days" /\ last.f = "done" /\ last.val = 1
    /\ user.premium_until # None
    /\ user.premium_until[1] - timedelta_days(1) > now + timedelta_days(1)
    /\ trial_usage # None /\ trial_usage[1].image_gen_used = 1
    /\ quota_usage[0] # None /\ quota_usage[0][1]["convert"] = 1

AdminHandlers ==
    {"admin_entry", "admin_exit", "handle_make_admin", "handle_remove_admin",
     "handle_grant_premium_user", "handle_grant_premium_days", "handle_revoke_premium"}

\* C26: an admin handler acts only for a sender whose is_admin flag is true
\* in the database at the time of that invocation: once an admin's rights
\* are removed, every later admin command of that user is refused.
C26_AdminOnly ==
    [][\A a \in Admins :
         (last'.op \in AdminHandlers /\ last'.h = a /\ last'.f # "refused") =>
            panel.is_admin[a]
      ]_vars

\* C27: when a chat handler of a non-premium user runs has_quota(f) while the
\* stored counter of today is at limit - 1 and another handler of the same
\* user has passed its own check for f and not yet stored its increment, the
\* check passes again and the handler goes on to the gated action: requests
\* in flight are not counted, so more than limit actions are admitted.
C27_CheckThenAct ==
    [][\A h \in Handlers, f \in ChatKinds :
         ( /\ StepQuota(h)
           /\ run[h].handler = f
           /\ quota_usage[today] # None
           /\ quota_usage[today][1][f] = ResolvedLimit(f) - 1
           /\ \E o \in Handlers \ {h} :
                 /\ run[o].handler = f
                 /\ run[o].pc \in {"act", "count"}
                 /\ "has_quota" \in run[o].calls ) =>
            /\ last'.op = "has_quota" /\ last'.val = TRUE
            /\ run'[h].pc = "act"
      ]_vars

\* limit - 1 quick chats are on record and two more have both been answered
C27_Witness ==
    /\ quota_usage[today] # None
    /\ quota_usage[today][1]["quick_chat"] = ResolvedLimit("quick_chat") - 1
    /\ \A h \in Handlers :
         /\ run[h].handler = "quick_chat"
         /\ "has_quota" \in run[h].calls
         /\ run[h].acted
         /\ run[h].pc = "count"

\* C28: a consume_trial(f) call whose session reads f_used =
\* TRIAL_USES_PER_PERIOD - 1 returns true and sets f_used to the cap also
\* when another open session has read the same value, has taken the last use
\* and has not committed yet: both calls return true, so more calls return
\* true between two resets than TRIAL_USES_PER_PERIOD.
C28_ConsumeNotAtomic ==
    [][\A h \in Handlers, f \in TrialKinds :
         ( /\ sess[h].open /\ ~sess[h].broken
           /\ trial_usage # None
           /\ trial_usage[1][TrialField(f)] = TRIAL_USES_PER_PERIOD - 1
           /\ StoredTrial(h)[TrialField(f)] = TRIAL_USES_PER_PERIOD - 1
           /\ \E o \in Handlers \ {h} :
                 /\ sess[o].open /\ sess[o].trial # None
                 /\ TrialField(f) \in sess[o].trial_upd
                 /\ sess[o].trial[1][TrialField(f)] = TRIAL_USES_PER_PERIOD
           /\ ConsumeTrial(h, f) ) =>
            /\ last'.op = "consume_trial" /\ ~last'.raised /\ last'.val = TRUE
            /\ sess'[h].trial[1][TrialField(f)] = TRIAL_USES_PER_PERIOD
      ]_vars

\* the record holds TRIAL_USES_PER_PERIOD - 1 image generations and both open
\* sessions have taken one more: the second call has just returned true
C28_Witness ==
    /\ last.op = "consume_trial" /\ last.f = "image_gen" /\ last.val = TRUE
    /\ trial_usage # None
    /\ trial_usage[1].image_gen_used = TRIAL_USES_PER_PERIOD - 1
    /\ \A h \in Handlers :
         /\ sess[h].open /\ sess[h].trial # None
         /\ "image_gen_used" \in sess[h].trial_upd
         /\ sess[h].trial[1].image_gen_used = TRIAL_USES_PER_PERIOD

\* C29: for an admin or a user with an active premium, has_quota and
\* can_use_feature return true and leave the session as it was: no quota_usage
\* row and no trial_usage record is loaded, created or changed, whatever the
\* limit is (0 included) and whether or not the user has any row.
C29_BypassTouchesNothing ==
    [][\A h \in Handlers :
         ( /\ PremiumEquivalent
           /\ \/ \E f \in QuotaKinds : HasQuota(h, f)
              \/ \E f \in QuotaKinds \cup TrialKinds, b \in BOOLEAN : CanUseFeature(h, f, b) ) =>
            /\ ~last'.raised
            /\ last'.op = "has_quota" => last'.val = TRUE
            /\ last'.op = "can_use_feature" => last'.val = <<TRUE, "">>
            /\ sess' = sess
            /\ quota_usage' = quota_usage
            /\ trial_usage' = trial_usage
      ]_vars

\* an admin whose limits are all 0 and who has no row at all was admitted by
\* has_quota, and the session has loaded and created nothing
C29_Witness ==
    /\ last.op = "has_quota" /\ last.val = TRUE
    /\ user.is_admin /\ user.premium_until = None
    /\ ResolvedLimit(last.f) = 0
    /\ trial_usage = None /\ quota_usage = NoRows
    /\ sess[last.h].open
    /\ sess[last.h].quota = NoRows /\ sess[last.h].trial = None
    /\ sess[last.h].quota_ins = {} /\ ~sess[last.h].trial_ins

\* the UTC calendar date of instant t
utc_date(t) == t \div TicksPerDay

\* C30: the row has_quota, increment_quota and get_quota_status work on is
\* the row of the UTC date of the instant of the call, whatever the time zone
\* of the host, and no row of another date is loaded by the call: the daily
\* rollover is at 00:00 UTC.
C30_UtcDate ==
    (last.op \in {"has_quota", "increment_quota", "get_quota_status"} /\ ~last.raised) =>
        /\ sess[last.h].quota[utc_date(now)] # None
        /\ \A d \in Dates : sess[last.h].quota[d] # None => d <= utc_date(now)

\* C31: every exit of a get_db block closes the session; a normal exit
\* commits the pending changes; when the body of the block raises, or the
\* commit does, nothing the block did is stored and the exception reaches the
\* caller.
C31_GetDbExits ==
    [][\A h \in Handlers :
         /\ (Commit(h) /\ ~sess[h].broken) =>
               /\ trial_usage' = CommittedTrial(sess[h])
               /\ quota_usage' = CommittedQuota(sess[h])
               /\ ~last'.raised
               /\ sess'[h] = ClosedSession
         /\ (Commit(h) /\ sess[h].broken) =>
               /\ trial_usage' = trial_usage /\ quota_usage' = quota_usage
               /\ last'.raised
               /\ sess'[h] = ClosedSession
         /\ BlockRaises(h) =>
               /\ trial_usage' = trial_usage /\ quota_usage' = quota_usage
               /\ last'.raised
               /\ sess'[h] = ClosedSession
      ]_vars

\* a block that had taken a trial use of a user without a trial record has
\* raised: the session is closed and no record is stored
C31_Witness ==
    /\ last.op = "get_db" /\ last.raised /\ last.val > 0
    /\ ~sess[last.h].open
    /\ trial_usage = None /\ quota_usage = NoRows

\* C32: within the handling of one message every increment_quota(f) call
\* comes after a has_quota(f) check for the same kind f that returned true.
C32_IncrementAfterCheck ==
    \A h \in Handlers :
       "increment_quota" \in run[h].calls =>
          /\ "has_quota" \in run[h].calls
          /\ HandlerOf(run[h].handler).check = HandlerOf(run[h].handler).count

\* C34: a gated action whose AI call failed consumes nothing: from the failed
\* call the handler goes straight to its return, with neither consume_trial
\* nor increment_quota left to run for that message.
C34_FailureConsumesNothing ==
    [][\A h \in Handlers :
         StepAct(h, FALSE) =>
            /\ run'[h].pc = "return"
            /\ sess' = sess
      ]_vars

\* C33: what a handler changed on the user's trial record is stored when its
\* get_db block ends without exception: at the end of a block whose
\* maybe_reset_trial call returned true (the renewal notice was sent) the
\* record the commit stores is the renewed one, whose period has not run
\* out; no step between the reset and the end of the block discards it.
C33_TrialChangesStored ==
    \A h \in Handlers :
       (run[h].pc = "return" /\ sess[h].open /\ ~sess[h].broken
          /\ "trial_renewed" \in run[h].calls) =>
          LET stored == CommittedTrial(sess[h]) IN
          /\ stored # None
          /\ now - stored[1].last_reset_at < timedelta_days(TRIAL_PERIOD_DAYS)

\* C35: the plan of a user is the premium plan only while premium_until is
\* set and in the future; a user whose premium has expired or was revoked,
\* and who has no personal override, has the limits of the free plan.
C35_PremiumPlanOnlyWhilePremium ==
    /\ user.plan = premium_plan => is_premium(user)
    /\ (~is_premium(user) /\ user.daily = NoOverride) =>
          \A k \in QuotaKinds : get_daily_limit(user, k) = free_plan[k]

\* C36: whatever make-admin, remove-admin, block and unblock operations were
\* run, no user is both blocked and admin; and a remove-admin an admin
\* directs at themselves leaves their rights as they are.
C36_BlockedXorAdmin ==
    /\ [](\A b \in Admins : ~(panel.is_blocked[b] /\ panel.is_admin[b]))
    /\ [][\A a \in Admins :
            handle_remove_admin(a, a) => panel'.is_admin[a] = panel.is_admin[a]]_vars


\* ---- utils/network_retry.py ------------------------------------------------
\* largest max_retries a caller passes
MaxAttempts == 3
\* retry_on_network_error(..., base_delay=2.0), in seconds
base_delay == 2
\* e.retry_after of a RetryAfter, in seconds
RetryAfterSeconds == {1, 5}

\* except (NetworkError, TimedOut, OSError)
NetworkErrors == {"NetworkError", "TimedOut", "OSError"}
\* how one invocation of func ends: it returns, or raises one of these
\* (ValueError stands for every exception the first two clauses do not name)
AttemptEnds == {"ok", "RetryAfter", "ValueError"} \cup NetworkErrors

RetryCallers ==
    {"wrapper", "safe_send_message", "safe_send_photo", "safe_delete_message"}

\* what a call ended with: the value or exception of invocation number at
\* (0-based); None, True, False and the TypeError of `raise None` have at = -1
Ended(raised, kind, at) == [raised |-> raised, kind |-> kind, at |-> at]

\* a backoff that does not grow
backoff_constant(attempt) == base_delay

\* delay = base_delay * (2 ** attempt)
backoff(attempt) == base_delay * (2 ^ attempt)

\* safe_* that let the exception of the wrapper through
safe_returns_reraising(caller, w) ==
    IF caller = "wrapper" \/ w.raised THEN w
    ELSE IF caller = "safe_delete_message" THEN Ended(FALSE, "True", -1)
    ELSE w

\* try: return await _send() / except Exception: return None  (for delete:
\* return True / return False); the bare wrapper hands on what it ended with
safe_returns(caller, w) ==
    IF caller = "wrapper" THEN w
    ELSE IF caller = "safe_delete_message"
    THEN Ended(FALSE, IF w.raised THEN "False" ELSE "True", -1)
    ELSE IF w.raised THEN Ended(FALSE, "None", -1)
    ELSE w

\* the wrapper ends with w and its caller gets safe_returns of it
RetryEnds(r, w) ==
    [r EXCEPT !.pc = "done", !.wrapped = Some(w),
              !.outcome = Some(safe_returns(r.caller, w))]

\* the wrapper is called: last_exception = None and the loop is entered; with
\* max_retries = 0 the loop body never runs and `raise last_exception` raises
\* TypeError (None is not an exception)
retry_call(caller, n) ==
    /\ retry.pc = "idle"
    /\ LET r == [NoRetry EXCEPT !.pc = "calling", !.caller = caller, !.max_retries = n]
       IN retry' = IF n = 0 THEN RetryEnds(r, Ended(TRUE, "TypeError", -1)) ELSE r
    /\ UNCHANGED <<now, user, trial_usage, quota_usage, sess, last, run, delivered,
                   panel, tz, conv>>

\* one pass of the loop body: func is invoked and ends with `end`; the clause
\* that catches it sleeps or re-raises; after the last pass last_exception is
\* raised
retry_attempt(end, secs) ==
    /\ retry.pc = "calling"
    /\ LET k == retry.attempt
           e == Ended(TRUE, end, k)
           r == [retry EXCEPT !.tried = Append(@, end)]
           exhausted == k + 1 >= retry.max_retries
       IN retry' =
            IF end = "ok" THEN RetryEnds(r, Ended(FALSE, "result", k))
            ELSE IF end = "RetryAfter"
            THEN LET r1 == [r EXCEPT !.slept = Append(@, [after |-> k, delay |-> secs + 1]),
                                     !.last_exception = Some(e),
                                     !.attempt = k + 1]
                 IN IF exhausted THEN RetryEnds(r1, e) ELSE r1
            ELSE IF end \in NetworkErrors
            THEN IF ~exhausted
                 THEN [r EXCEPT !.slept = Append(@, [after |-> k, delay |-> backoff(k)]),
                                !.last_exception = Some(e),
                                !.attempt = k + 1]
                 ELSE RetryEnds([r EXCEPT !.last_exception = Some(e), !.attempt = k + 1], e)
            ELSE RetryEnds(r, e)
    /\ UNCHANGED <<now, user, trial_usage, quota_usage, sess, last, run, delivered,
                   panel, tz, conv>>

\* the caller goes on; the next call starts from scratch
retry_done ==
    /\ retry.pc = "done"
    /\ retry' = NoRetry
    /\ UNCHANGED <<now, user, trial_usage, quota_usage, sess, last, run, delivered,
                   panel, tz, conv>>

InitRetry == InitDb /\ user = PlainUser

NextRetry ==
    \/ \E caller \in RetryCallers, n \in 0..MaxAttempts : retry_call(caller, n)
    \/ \E end \in AttemptEnds, secs \in RetryAfterSeconds :
         /\ end # "RetryAfter" => secs = 1
         /\ retry_attempt(end, secs)
    \/ retry_done

SpecRetry == InitRetry /\ [][NextRetry]_vars

\* the invocations of func that raised a retryable exception
Retryable == NetworkErrors \cup {"RetryAfter"}

\* C37: a function wrapped with max_retries = n >= 1 is invoked at most n
\* times; the wrapper returns the result of the first invocation that
\* succeeds and invokes nothing after it; when all n invocations raised
\* NetworkError, TimedOut, OSError or RetryAfter it raises the exception of
\* the last one; and before the retry that follows a network error on
\* invocation k (from 0) it has slept base_delay * 2^k
C37_BoundedRetry ==
    retry.max_retries >= 1 =>
        LET n == retry.max_retries
            m == Len(retry.tried)
        IN /\ m <= n
           /\ \A i \in 1..m : retry.tried[i] = "ok" =>
                /\ i = m
                /\ retry.pc = "done"
                /\ retry.wrapped = Some(Ended(FALSE, "result", i - 1))
           /\ (retry.wrapped # None /\ ~retry.wrapped[1].raised) =>
                (m >= 1 /\ retry.tried[m] = "ok")
           /\ (m = n /\ \A i \in 1..n : retry.tried[i] \in Retryable) =>
                /\ retry.pc = "done"
                /\ retry.wrapped = Some(Ended(TRUE, retry.tried[n], n - 1))
           /\ \A i \in 1..m : (retry.tried[i] \in NetworkErrors /\ i < n) =>
                /\ [after |-> i - 1, delay |-> base_delay * (2 ^ (i - 1))]
                     \in {retry.slept[j] : j \in 1..Len(retry.slept)}
                /\ Cardinality({j \in 1..Len(retry.slept) : retry.slept[j].after = i - 1}) = 1

\* three invocations failed with network errors, 2 s and 4 s were slept, and
\* the exception of the third is raised
C37_Witness ==
    /\ retry.pc = "done"
    /\ retry.caller = "wrapper"
    /\ retry.max_retries = 3
    /\ retry.tried = <<"TimedOut", "OSError", "NetworkError">>
    /\ retry.slept = <<[after |-> 0, delay |-> 2], [after |-> 1, delay |-> 4]>>
    /\ retry.wrapped = Some(Ended(TRUE, "NetworkError", 2))

\* C38: an exception of func that is not NetworkError, TimedOut, OSError or
\* RetryAfter is re-raised by the wrapper at once, with no sleep and no
\* further invocation; safe_send_message, safe_send_photo and
\* safe_delete_message never raise, for any max_retries >= 0: they return the
\* result of the send (True for delete) when the wrapper returned, and None
\* (False for delete) when it raised
C38_NonRetryableAndSafe ==
    LET m == Len(retry.tried) IN
    /\ \A i \in 1..m : retry.tried[i] \notin (Retryable \cup {"ok"}) =>
         /\ i = m
         /\ retry.pc = "done"
         /\ retry.wrapped = Some(Ended(TRUE, retry.tried[i], i - 1))
         /\ \A j \in 1..Len(retry.slept) : retry.slept[j].after # i - 1
    /\ (retry.pc = "done" /\ retry.caller # "wrapper") =>
         /\ ~retry.outcome[1].raised
         /\ retry.outcome[1] =
              IF retry.caller = "safe_delete_message"
              THEN Ended(FALSE, IF retry.wrapped[1].raised THEN "False" ELSE "True", -1)
              ELSE IF retry.wrapped[1].raised THEN Ended(FALSE, "None", -1)
              ELSE Ended(FALSE, "result", m - 1)

\* safe_send_photo, second invocation raises a ValueError after a network
\* error: the wrapper re-raises it and the caller gets None
C38_Witness ==
    /\ retry.pc = "done"
    /\ retry.caller = "safe_send_photo"
    /\ retry.max_retries = 3
    /\ retry.tried = <<"NetworkError", "ValueError">>
    /\ retry.wrapped = Some(Ended(TRUE, "ValueError", 1))
    /\ retry.outcome = Some(Ended(FALSE, "None", -1))


\* ---- handlers/image_edit.py: the two messages of the image-edit flow -------
\* images the user sends in all
MaxPhotos == 2

\* "regen_image_file_id" in context.user_data
HasImage == conv.user_data.regen_image_file_id # None

\* context.user_data.pop("regen_image_file_id", None)
PopImage(c) == [c EXCEPT !.user_data.regen_image_file_id = None]

\* ai_menu_router, the image-edit button: the stored id is dropped and the
\* conversation enters IMAGE_EDIT
enter_image_edit ==
    /\ conv.state = "AI_MENU"
    /\ conv' = [PopImage(conv) EXCEPT !.state = "IMAGE_EDIT"]
    /\ UNCHANGED <<now, user, trial_usage, quota_usage, sess, last, run, delivered,
                   panel, tz, retry>>

\* image_edit_handler, the back button: the stored id is dropped before the
\* get_db block, which only reads the user
edit_back ==
    /\ conv.state = "IMAGE_EDIT"
    /\ conv' = [PopImage(conv) EXCEPT !.state = "AI_MENU"]
    /\ UNCHANGED <<now, user, trial_usage, quota_usage, sess, last, run, delivered,
                   panel, tz, retry>>

\* image_edit_handler on a photo or image document (step 1), one get_db block:
\* maybe_reset_trial, then the file id is stored unless one is stored already;
\* the block commits.  Nothing is awaited before the id is stored when no
\* reset falls due
edit_photo(h) ==
    /\ conv.state = "IMAGE_EDIT"
    /\ run[h].pc = "idle"
    /\ ~sess[h].open
    /\ LET s1 == get_or_create_trial(h)
           r == maybe_reset_trial(s1.trial[1], now)
           s2 == IF r.ret THEN PutTrial(s1, r.trial) ELSE s1
           id == conv.photos + 1
       IN IF s1.broken
          THEN /\ UNCHANGED trial_usage
               /\ conv' = [conv EXCEPT !.photos = id]
               /\ last' = Call("get_db", h, "-", TRUE, 0)
          ELSE /\ trial_usage' = CommittedTrial(s2)
               /\ conv' = IF HasImage THEN [conv EXCEPT !.photos = id]
                          ELSE [conv EXCEPT !.photos = id,
                                            !.user_data.regen_image_file_id = Some(id)]
               /\ last' = NoCall
    /\ UNCHANGED <<now, user, quota_usage, sess, run, delivered, panel, tz, retry>>

\* image_edit_handler on a text message: the get_db block is entered
edit_text(h) ==
    /\ conv.state = "IMAGE_EDIT"
    /\ Dispatch(h, "image_edit")
    /\ conv' = [conv EXCEPT !.flow[h] = "text"]
    /\ UNCHANGED <<delivered, panel, tz, retry>>

\* the step at which `"regen_image_file_id" in context.user_data and
\* message.text` is evaluated: the first one after maybe_reset_trial
EditGate == After(image_edit_handler, 1)

\* no image is stored: the handler leaves the block and asks for one
edit_fallback(h) ==
    /\ conv.flow[h] = "text"
    /\ run[h].pc = EditGate
    /\ ~HasImage
    /\ Goto(h, "return", {})
    /\ UNCHANGED <<now, user, trial_usage, quota_usage, sess, last, delivered,
                   panel, tz, retry, conv>>

\* step 2 for a user on trial: the image is there, trial_remaining is read and
\* the trial notice (or the refusal) is sent, which suspends the handler
edit_trial(h) ==
    /\ conv.flow[h] = "text"
    /\ HasImage
    /\ StepTrial(h)
    /\ conv' = [conv EXCEPT !.flow[h] =
                  IF last'.raised THEN "raised"
                  ELSE IF last'.val <= 0 THEN "denied" ELSE "checked"]
    /\ UNCHANGED <<delivered, panel, tz, retry>>

\* has_quota, and with quota file_id = context.user_data.pop(
\* "regen_image_file_id"): the pop has no default, so it raises KeyError when
\* the id is gone; with an id the edit starts on it
edit_quota(h) ==
    /\ conv.flow[h] = "checked" \/ (conv.flow[h] = "text" /\ HasImage)
    /\ StepQuota(h)
    /\ conv' =
         IF ~last'.val THEN [conv EXCEPT !.flow[h] = "denied"]
         ELSE IF HasImage
         THEN [PopImage(conv) EXCEPT
                 !.edited = Append(@, conv.user_data.regen_image_file_id[1]),
                 !.flow[h] = "editing"]
         ELSE [conv EXCEPT !.flow[h] = "KeyError"]
    /\ UNCHANGED <<delivered, panel, tz, retry>>

\* the KeyError leaves the get_db block (the pop stands before the try): the
\* block rolls back and the handler ends with the exception
edit_key_error(h) ==
    /\ conv.flow[h] = "KeyError"
    /\ BlockRaises(h)
    /\ run' = [run EXCEPT ![h] = Idle]
    /\ conv' = [conv EXCEPT !.flow[h] = "none"]
    /\ UNCHANGED <<delivered, panel, tz, retry>>

\* the handler returns: after a refusal the stored id is dropped (pop with a
\* default, after the refusal was sent) and the conversation goes to AI_MENU
edit_return(h) ==
    /\ conv.flow[h] \in {"text", "raised", "checked", "denied", "editing"}
    /\ Return(h)
    /\ conv' = IF conv.flow[h] = "denied"
               THEN [PopImage(conv) EXCEPT !.flow[h] = "none", !.state = "AI_MENU"]
               ELSE [conv EXCEPT !.flow[h] = "none"]
    /\ UNCHANGED <<delivered, panel, tz, retry>>

\* users of the image-edit flow: free, on trial or premium
EditUsers == {u \in FreeUsers : ~u.is_admin}

\* a registered user in the AI menu, with a trial record and today's quota row
InitEditFlow ==
    /\ now = 0
    /\ tz = UTC
    /\ user \in EditUsers
    /\ trial_usage \in {Some([NewTrialUsage(0) EXCEPT !.image_edit_used = b]) :
                          b \in {0, TRIAL_USES_PER_PERIOD}}
    /\ quota_usage \in {[NoRows EXCEPT ![0] = Some([NewQuotaUsage EXCEPT !["convert"] = c])] :
                          c \in {0, 2}}
    /\ sess = [h \in Handlers |-> ClosedSession]
    /\ last = NoCall
    /\ run = [h \in Handlers |-> Idle]
    /\ delivered = NoDeliveries
    /\ panel = NoPanel
    /\ retry = NoRetry
    /\ conv = [NoConv EXCEPT !.state = "AI_MENU", !.registered = TRUE]

NextEditFlow ==
    \/ enter_image_edit
    \/ edit_back
    \/ \E h \in Handlers : conv.photos < MaxPhotos /\ edit_photo(h)
    \/ \E h \in Handlers : UsedBelow(h, 1) /\ edit_text(h)
    \/ \E h \in Handlers : conv.flow[h] = "text" /\ StepReset(h) /\ UNCHANGED dvars
    \/ \E h \in Handlers : edit_fallback(h)
    \/ \E h \in Handlers : edit_trial(h)
    \/ \E h \in Handlers : edit_quota(h)
    \/ \E h \in Handlers : edit_key_error(h)
    \/ \E h \in Handlers, ok \in BOOLEAN :
         conv.flow[h] = "editing" /\ StepAct(h, ok) /\ Deliver(h, ok)
    \/ \E h \in Handlers, rb \in BOOLEAN :
         conv.flow[h] = "editing" /\ StepArchive(h, rb) /\ UNCHANGED dvars
    \/ \E h \in Handlers : conv.flow[h] = "editing" /\ StepConsume(h) /\ UNCHANGED dvars
    \/ \E h \in Handlers : conv.flow[h] = "editing" /\ StepCount(h) /\ UNCHANGED dvars
    \/ \E h \in Handlers : edit_return(h)

SpecEditFlow == InitEditFlow /\ [][NextEditFlow]_vars

\* C39: an edit runs only on an image stored by an earlier message of the
\* flow, every stored image is edited at most once, and of two text messages
\* handled concurrently neither handler fails on the file id that the other
\* has removed for its edit
C39_StoredImageEditedOnce ==
    /\ \A i \in 1..Len(conv.edited) : conv.edited[i] \in 1..conv.photos
    /\ \A i, j \in 1..Len(conv.edited) : conv.edited[i] = conv.edited[j] => i = j
    /\ \A h, g \in Handlers : ~(conv.flow[h] = "KeyError" /\ conv.flow[g] = "editing")


\* ---- handlers/start.py: registration and language selection ---------------
\* the members of models_enums.UserAction
UserAction ==
    {"profile_view", "grant_premium", "revoke_premium", "make_admin", "remove_admin",
     "block_user", "unblock_user", "broadcast", "chat", "image_generation",
     "image_analysis", "pptx_creation", "convert"}

\* the three buttons of the language keyboard (the Russian one written in
\* Latin letters here) and any other text
LanguageTexts == {"english", "russkiy", "o'zbek", "hello"}

\* the language parsed from the text of the message; English when none matches
parse_language(text) ==
    CASE text = "english" -> "en"
      [] text = "russkiy" -> "ru"
      [] text = "o'zbek" -> "uz"
      [] OTHER -> "en"

\* start_command: one get_db block without an await.  A new user is inserted
\* (lang NULL) and logged as profile_view, maybe_reset_trial runs, the block
\* commits; then user_data["lang"] is set when the row has a language and the
\* conversation goes to MAIN_MENU, or to SELECT_LANGUAGE when it has none
start_command(h) ==
    /\ ~sess[h].open
    /\ LET s1 == get_or_create_trial(h)
           r == maybe_reset_trial(s1.trial[1], now)
           s2 == IF r.ret THEN PutTrial(s1, r.trial) ELSE s1
           raised == s1.broken \/ "profile_view" \notin UserAction
       IN IF raised
          THEN /\ last' = Call("start_command", h, "-", TRUE, FALSE)
               /\ UNCHANGED <<trial_usage, conv>>
          ELSE /\ last' = Call("start_command", h, "-", FALSE, r.ret)
               /\ trial_usage' = CommittedTrial(s2)
               /\ conv' = [conv EXCEPT
                    !.registered = TRUE,
                    !.user_data.lang = IF conv.lang # None THEN conv.lang ELSE @,
                    !.state = IF conv.lang # None THEN "MAIN_MENU" ELSE "SELECT_LANGUAGE"]
    /\ UNCHANGED <<now, user, quota_usage, sess, run, delivered, panel, tz, retry>>

\* handle_language_selection: user_data["lang"] is set first; in the get_db
\* block user.lang = lang is pending when log_action(db, user.id,
\* UserAction.language_change, ...) is evaluated.  A member that the enum does
\* not have raises AttributeError: the block rolls back and the handler ends
\* with the exception, so the conversation keeps its state.  Otherwise the
\* block commits and the handler returns MAIN_MENU (the reply is taken to be
\* delivered)
handle_language_selection(h, text) ==
    /\ conv.state = "SELECT_LANGUAGE"
    /\ ~sess[h].open
    /\ LET lang == parse_language(text)
           c == [conv EXCEPT !.user_data.lang = Some(lang)]
           raised == conv.registered /\ "language_change" \notin UserAction
       IN IF raised
          THEN /\ conv' = c
               /\ last' = Call("handle_language_selection", h, text, TRUE, FALSE)
          ELSE /\ conv' = [c EXCEPT !.lang = IF conv.registered THEN Some(lang) ELSE @,
                                    !.state = "MAIN_MENU"]
               /\ last' = Call("handle_language_selection", h, text, FALSE, lang)
    /\ UNCHANGED <<now, user, trial_usage, quota_usage, sess, run, delivered, panel,
                   tz, retry>>

\* cancel_command sent by the user, the fallback of the conversation: the
\* user's user_data is cleared and the conversation ends
cancel_conversation ==
    /\ conv.state # "END"
    /\ conv' = [conv EXCEPT !.state = "END",
                            !.user_data = [lang |-> None, regen_image_file_id |-> None]]
    /\ last' = Call("cancel_command", "h1", "-", FALSE, FALSE)
    /\ UNCHANGED <<now, user, trial_usage, quota_usage, sess, run, delivered, panel,
                   tz, retry>>

\* nobody has sent /start yet
InitConversation == InitDb /\ user = PlainUser

NextConversation ==
    \/ \E h \in SeqHandlers : start_command(h)
    \/ \E h \in SeqHandlers, text \in LanguageTexts : handle_language_selection(h, text)
    \/ cancel_conversation
    \/ Tick(timedelta_days(MaxDayTrial)) /\ UNCHANGED hvars

SpecConversation == InitConversation /\ [][NextConversation]_vars

\* C40: in SELECT_LANGUAGE a text message of a registered user completes the
\* language selection: the chosen language is stored on the users row and the
\* conversation moves to MAIN_MENU
C40_LanguageSelectionCompletes ==
    [][\A h \in SeqHandlers, text \in LanguageTexts :
         (conv.registered /\ handle_language_selection(h, text)) =>
            /\ conv'.lang = Some(parse_language(text))
            /\ conv'.state = "MAIN_MENU"]_vars

====
